---- MODULE Spec2Model ----
(***************************************************************************)
(* Procedural open world: chunk streaming (ChunkManager), biome            *)
(* classification and content synthesis (BiomeGenerator) and the seeded    *)
(* gradient noise (SimplexNoise).                                          *)
(*                                                                         *)
(* Numbers.  The program computes in IEEE doubles.  Integer-valued         *)
(* quantities (cell coordinates, counters, the permutation table, the      *)
(* linear-congruential generator including its double rounding) are        *)
(* modelled exactly.  Real-valued quantities are modelled in fixed point:  *)
(* noise coordinates and noise values in units of 1/NS, pseudo-random      *)
(* draws in units of 1/RS and world lengths in units of 1/LS.              *)
(***************************************************************************)
EXTENDS Integers, Sequences, FiniteSets, TLC

(***************************************************************************)
(* Program constants                                                       *)
(***************************************************************************)
CHUNK_SIZE == 100
RENDER_DISTANCE == 2
WorldSeed == 12345

(***************************************************************************)
(* Bounds of the model                                                     *)
(***************************************************************************)
\* how many times the observer may change cell
MaxMoves == 3
\* the update counter saturates here
MaxTicks == 27
\* direct calls of the generator and the noise in one behaviour
MaxCalls == 3
\* dispose calls in one behaviour, and update calls in a behaviour with dispose
MaxDisposes == 1
MaxDisposeTicks == 6
\* update calls in a behaviour with a collaborator that may throw
MaxFaultTicks == 6

(***************************************************************************)
(* State                                                                   *)
(***************************************************************************)
VARIABLES
    \* fields of ChunkManager
    chunks, loadQueue, unloadQueue, isProcessing, groundMeshPool, objectGroupPool,
    biomeGenerator, noise,
    \* the objects the manager constructs: ground meshes and object groups, by
    \* order of construction, and the number of bodies constructed so far
    meshes, groups, bodyCount,
    \* the collaborators: children of the scene, bodies of the physics world
    scene, world,
    \* the GPU resources released with dispose(): geometries of meshes, materials
    disposed,
    \* hidden state of Math.random
    mathRandom,
    \* the frame loop: position inside update, cell of the last observer
    \* position, number of cell changes, number of update calls (saturating),
    \* number of dispose calls
    pc, playerChunk, moves, ticks, disposals,
    \* history: loadChunk and unloadChunk calls of the running update, the last
    \* load, the key whose unload returned each pooled resource, the content of
    \* the first load of each key and the number of loads of each key
    loadsInUpdate, unloadsInUpdate, lastLoad, groundDonor, groupDonor, firstLoad, timesLoaded,
    \* the last unloadChunk call, and the exception that left update (<<>>
    \* while none was thrown)
    lastUnload, thrown,
    \* direct calls of the generator and the noise: the last call with its
    \* arguments and result, the first generateChunkContent call, the number
    \* of calls
    call, firstSynthesis, calls,
    \* fields of the server's GameRoom
    players, usedColors, playerIdCounter,
    \* the server's sockets: state of each connection ("open", "closed"),
    \* and socket.data.playerId of each (0 while undefined)
    sockets, socketData,
    \* Date.now() on the server, in ms
    now,
    \* the NetworkManager of each socket that is the socket of a game client
    \* (playerId, isConnected, remoteVehicles), and the events and
    \* acknowledgements sent to it and not yet delivered, in the order sent
    managers, inbox,
    \* history: number of joinRoom, leaveRoom and vehicleState events and of
    \* clock steps handled, the ids of the playerLeft events emitted, the
    \* result of the last joinRoom, the sockets whose last event was
    \* leaveRoom or disconnect
    handled, notices, lastJoin, departed

managerVars == <<chunks, loadQueue, unloadQueue, isProcessing, groundMeshPool,
                 objectGroupPool, biomeGenerator, noise>>
objectVars == <<meshes, groups, bodyCount, scene, world, disposed, mathRandom>>
loopVars == <<pc, playerChunk, moves, ticks, disposals>>
historyVars == <<loadsInUpdate, unloadsInUpdate, lastLoad, groundDonor, groupDonor,
                 firstLoad, timesLoaded, lastUnload, thrown>>
callVars == <<call, firstSynthesis, calls>>
worldVars == <<managerVars, objectVars, loopVars, historyVars, callVars>>
roomVars == <<players, usedColors, playerIdCounter, sockets, socketData, now>>
clientVars == <<managers, inbox>>
netVars == <<roomVars, clientVars, handled, notices, lastJoin, departed>>
vars == <<worldVars, netVars>>

(***************************************************************************)
(* Generic helpers                                                         *)
(***************************************************************************)
Abs(n) == IF n < 0 THEN -n ELSE n
Min(a, b) == IF a < b THEN a ELSE b
Max(a, b) == IF a < b THEN b ELSE a
SeqToSet(s) == {s[i] : i \in 1..Len(s)}
Includes(s, e) == \E i \in 1..Len(s) : s[i] = e
NoDup(s) == \A i, j \in 1..Len(s) : s[i] = s[j] => i = j

(***************************************************************************)
(* Strings: a string is a sequence of one-character strings.               *)
(* Template literal `${chunkX},${chunkZ}`, String.split(','), parseInt.    *)
(***************************************************************************)
DigitChars == <<"0", "1", "2", "3", "4", "5", "6", "7", "8", "9">>

RECURSIVE NatToString(_)
NatToString(n) ==
    IF n < 10 THEN <<DigitChars[n + 1]>>
    ELSE NatToString(n \div 10) \o <<DigitChars[(n % 10) + 1]>>

\* Number-to-string conversion of an integer, as the template literal does it
NumberToString(n) == IF n < 0 THEN <<"-">> \o NatToString(-n) ELSE NatToString(n)

\* `${chunkX},${chunkZ}`
ChunkKey(chunkX, chunkZ) == NumberToString(chunkX) \o <<",">> \o NumberToString(chunkZ)

IsDigit(c) == \E d \in 1..10 : DigitChars[d] = c
DigitValue(c) == (CHOOSE d \in 1..10 : DigitChars[d] = c) - 1

\* index of the first "," of s at or after position from, Len(s)+1 when none
RECURSIVE IndexOfComma(_, _)
IndexOfComma(s, from) ==
    IF from > Len(s) THEN Len(s) + 1
    ELSE IF s[from] = "," THEN from
    ELSE IndexOfComma(s, from + 1)

\* key.split(','): the sequence of the comma-separated pieces
RECURSIVE SplitComma(_, _)
SplitComma(s, from) ==
    LET c == IndexOfComma(s, from) IN
    IF c > Len(s) THEN <<SubSeq(s, from, Len(s))>>
    ELSE <<SubSeq(s, from, c - 1)>> \o SplitComma(s, c + 1)

\* value of the longest run of digits of s starting at position i
RECURSIVE ParseDigits(_, _, _)
ParseDigits(s, i, acc) ==
    IF i > Len(s) \/ ~IsDigit(s[i]) THEN acc
    ELSE ParseDigits(s, i + 1, acc * 10 + DigitValue(s[i]))

\* parseInt(s): optional sign, then decimal digits; "NaN" when no digit follows
parseInt(s) ==
    LET neg == Len(s) > 0 /\ s[1] = "-"
        start == IF Len(s) > 0 /\ (s[1] = "-" \/ s[1] = "+") THEN 2 ELSE 1
    IN IF start > Len(s) \/ ~IsDigit(s[start]) THEN "NaN"
       ELSE IF neg THEN -ParseDigits(s, start, 0) ELSE ParseDigits(s, start, 0)

(***************************************************************************)
(* SimplexNoise: the seeded permutation table                              *)
(***************************************************************************)
\* Numbers beyond 2^31 are held as five limbs of LimbBits bits, least
\* significant first, so that the double-precision product of the generator
\* can be computed without loss and then rounded as a double is.
LimbBits == 14
Limb == 16384
MantissaBits == 53

RECURSIVE Pow2(_)
Pow2(k) == IF k = 0 THEN 1 ELSE 2 * Pow2(k - 1)

RECURSIVE BitLength(_)
BitLength(n) == IF n = 0 THEN 0 ELSE 1 + BitLength(n \div 2)

ToLimbs(n) == <<n % Limb, (n \div Limb) % Limb, n \div (Limb * Limb), 0, 0>>

\* carry propagation
Normalize(c) ==
    LET l1 == c[1]
        l2 == c[2] + (l1 \div Limb)
        l3 == c[3] + (l2 \div Limb)
        l4 == c[4] + (l3 \div Limb)
        l5 == c[5] + (l4 \div Limb)
    IN <<l1 % Limb, l2 % Limb, l3 % Limb, l4 % Limb, l5>>

\* exact product of two numbers below 2^31
MulExact(a, b) ==
    LET x == ToLimbs(a)
        y == ToLimbs(b)
    IN Normalize(<<x[1] * y[1],
                   x[1] * y[2] + x[2] * y[1],
                   x[1] * y[3] + x[2] * y[2] + x[3] * y[1],
                   x[2] * y[3] + x[3] * y[2],
                   x[3] * y[3]>>)

LimbsBitLength(p) ==
    IF p[5] # 0 THEN 4 * LimbBits + BitLength(p[5])
    ELSE IF p[4] # 0 THEN 3 * LimbBits + BitLength(p[4])
    ELSE IF p[3] # 0 THEN 2 * LimbBits + BitLength(p[3])
    ELSE IF p[2] # 0 THEN LimbBits + BitLength(p[2])
    ELSE BitLength(p[1])

\* the nearest double of a non-negative integer (ties to even)
RoundToDouble(p) ==
    LET k == LimbsBitLength(p) - MantissaBits IN
    IF k <= 0 THEN p
    ELSE LET unit == Pow2(k)
             low == p[1] % unit
             keptOdd == ((p[1] \div unit) % 2) = 1
             up == (2 * low > unit) \/ (2 * low = unit /\ keptOdd)
         IN Normalize(<<p[1] - low + (IF up THEN unit ELSE 0), p[2], p[3], p[4], p[5]>>)

AddSmall(p, n) == Normalize(<<p[1] + n, p[2], p[3], p[4], p[5]>>)

\* x & 0x7fffffff of a non-negative integer-valued double
Low31(p) == p[1] + p[2] * Limb + (p[3] % 8) * Limb * Limb

\* Number.isNaN: the value NaN is held as the string "NaN"
IsNaN(v) == ToString(v) = ToString("NaN")

\* s = (s * 1103515245 + 12345) & 0x7fffffff, in double arithmetic; NaN
\* stays NaN through the product and the sum, and NaN & 0x7fffffff is 0.
\* For a negative s the product and the sum are negative doubles of magnitude
\* m; & converts -m to 32 bits in two's complement and keeps the low 31 bits,
\* which is 2^31 - (m mod 2^31) unless that is zero.
LcgNext(s) ==
    IF IsNaN(s) THEN 0
    ELSE IF s >= 0
    THEN Low31(RoundToDouble(AddSmall(RoundToDouble(MulExact(s, 1103515245)), 12345)))
    ELSE LET m == Low31(RoundToDouble(AddSmall(RoundToDouble(MulExact(-s, 1103515245)),
                                               -12345)))
         IN IF m = 0 THEN 0 ELSE (2147483647 - m) + 1

\* [p[i], p[j]] = [p[j], p[i]] on a 0-indexed array held as a sequence
Swap(p, i, j) == [p EXCEPT ![i + 1] = p[j + 1], ![j + 1] = p[i + 1]]

\* JavaScript's %: the result has the sign of the dividend
JsRem(a, b) == IF a >= 0 THEN a % b ELSE -((-a) % b)

ShuffleStepAnyIndex(st) ==
    LET s2 == LcgNext(st.s)
        j == JsRem(s2, Len(st.p))
    IN [p |-> Swap(st.p, st.i, j), s |-> s2, i |-> st.i - 1, js |-> Append(st.js, j)]

\* one iteration of the Fisher-Yates loop on the loop state (p, s, i); js
\* collects the indices j of the iterations
ShuffleStep(st) ==
    LET s2 == LcgNext(st.s)
        j == JsRem(s2, st.i + 1)
    IN [p |-> Swap(st.p, st.i, j), s |-> s2, i |-> st.i - 1, js |-> Append(st.js, j)]

\* n consecutive iterations of the loop (evaluated by halving)
RECURSIVE ShuffleSteps(_, _)
ShuffleSteps(st, n) ==
    IF n <= 0 THEN st
    ELSE IF n = 1 THEN ShuffleStep(st)
    ELSE LET half == ShuffleSteps(st, n \div 2)
         IN IF half.i >= 0 THEN ShuffleSteps(half, n - (n \div 2)) ELSE half

\* for (let i = 255; i > 0; i--) { ... }
ShuffleLoop(p, seed) ==
    ShuffleSteps([p |-> p, s |-> seed, i |-> Len(p) - 1, js |-> <<>>], Len(p) - 1)

Shuffle(p, seed) == ShuffleLoop(p, seed).p

PermSize == 256

\* new SimplexNoise(seed): the fields perm and permMod12 (0-indexed arrays
\* held as sequences: array index n is sequence index n + 1)
SimplexNoise(seed) ==
    LET identity == SubSeq([n \in 1..PermSize |-> n - 1], 1, PermSize)
        p == Shuffle(identity, seed)
        perm == SubSeq([n \in 1..(2 * PermSize) |-> p[((n - 1) % PermSize) + 1]],
                       1, 2 * PermSize)
    IN [perm |-> perm,
        permMod12 |-> SubSeq([n \in 1..(2 * PermSize) |-> perm[n] % 12], 1, 2 * PermSize)]

grad3 == << <<1, 1, 0>>, <<-1, 1, 0>>, <<1, -1, 0>>, <<-1, -1, 0>>,
            <<1, 0, 1>>, <<-1, 0, 1>>, <<1, 0, -1>>, <<-1, 0, -1>>,
            <<0, 1, 1>>, <<0, -1, 1>>, <<0, 1, -1>>, <<0, -1, -1>> >>

(***************************************************************************)
(* SimplexNoise.noise2D and fbm, in fixed point: a coordinate or a value v *)
(* stands for v / NS.                                                      *)
(***************************************************************************)
NS == 10000
\* F2 = 0.5 * (sqrt(3) - 1) and G2 = (3 - sqrt(3)) / 6, times NS
F2 == 3660
G2 == 2113

\* product of two fixed-point numbers
FMul(a, b) == (a * b) \div NS

\* one corner's contribution: t = 0.5 - x*x - y*y; if t >= 0 then
\* t^4 * (g . (x, y)).  The result stands for itself / (NS * NS * 100).
Corner(gi, x, y) ==
    LET t == (NS \div 2) - FMul(x, x) - FMul(y, y) IN
    IF t >= 0
    THEN LET t2 == FMul(t, t)
         IN ((t2 * t2) \div 100) * (grad3[gi + 1][1] * x + grad3[gi + 1][2] * y)
    ELSE 0

noise2D(self, x, y) ==
    LET s == FMul(x + y, F2)
        i == (x + s) \div NS
        j == (y + s) \div NS
        t == (i + j) * G2
        x0 == x - (i * NS - t)
        y0 == y - (j * NS - t)
        i1 == IF x0 > y0 THEN 1 ELSE 0
        j1 == IF x0 > y0 THEN 0 ELSE 1
        x1 == x0 - i1 * NS + G2
        y1 == y0 - j1 * NS + G2
        x2 == x0 - NS + 2 * G2
        y2 == y0 - NS + 2 * G2
        ii == i % 256
        jj == j % 256
        gi0 == self.permMod12[ii + self.perm[jj + 1] + 1]
        gi1 == self.permMod12[ii + i1 + self.perm[jj + j1 + 1] + 1]
        gi2 == self.permMod12[ii + 1 + self.perm[jj + 1 + 1] + 1]
    IN (70 * ((Corner(gi0, x0, y0) + Corner(gi1, x1, y1) + Corner(gi2, x2, y2)) \div 1000))
           \div 1000

\* the loop of fbm from octave i on; amplitude as a fixed-point number,
\* frequency as an integer (lacunarity is an integer at every call site)
RECURSIVE FbmLoop(_, _, _, _, _, _, _, _, _, _)
FbmLoop(self, x, y, octaves, lacunarity, persistence, i, value, amplitude, frequency) ==
    IF i >= octaves THEN value
    ELSE FbmLoop(self, x, y, octaves, lacunarity, persistence, i + 1,
                 value + FMul(amplitude, noise2D(self, x * frequency, y * frequency)),
                 FMul(amplitude, persistence), frequency * lacunarity)

RECURSIVE FbmMax(_, _, _, _, _)
FbmMax(octaves, persistence, i, maxValue, amplitude) ==
    IF i >= octaves THEN maxValue
    ELSE FbmMax(octaves, persistence, i + 1, maxValue + amplitude, FMul(amplitude, persistence))

\* value / maxValue; with octaves = 0 the program divides 0 by 0
fbm(self, x, y, octaves, lacunarity, persistence) ==
    LET value == FbmLoop(self, x, y, octaves, lacunarity, persistence, 0, 0, NS, 1)
        maxValue == FbmMax(octaves, persistence, 0, 0, NS)
    IN IF maxValue = 0 THEN "NaN" ELSE (value * NS) \div maxValue

(***************************************************************************)
(* BiomeGenerator                                                          *)
(*                                                                         *)
(* A pseudo-random draw r stands for r / RS.  A world length or coordinate *)
(* v handed to or produced by the synthesizer stands for v / LS, so that   *)
(* every half, three-quarter and six-fifth the program takes is exact.     *)
(***************************************************************************)
RS == 1000
LS == 200000

BiomeTypes == {"city", "suburban", "desert", "forest", "snow"}

\* new BiomeGenerator(seed)
BiomeGenerator(seed) == [seed |-> seed, noise |-> SimplexNoise(seed)]

\* a classifier whose city band starts at 0.3 inclusive
BiomeOfInclusive(noiseValue, tempNoise) ==
    IF noiseValue >= (3 * NS) \div 10
    THEN (IF tempNoise > 0 THEN "city" ELSE "suburban")
    ELSE IF noiseValue > 0 THEN "forest"
    ELSE IF noiseValue > -((3 * NS) \div 10)
    THEN (IF tempNoise > (2 * NS) \div 10 THEN "snow" ELSE "desert")
    ELSE "desert"

\* getBiome with the two noise samples given (thresholds 0.3, 0, -0.3, 0.2)
BiomeOf(noiseValue, tempNoise) ==
    IF noiseValue > (3 * NS) \div 10
    THEN (IF tempNoise > 0 THEN "city" ELSE "suburban")
    ELSE IF noiseValue > 0 THEN "forest"
    ELSE IF noiseValue > -((3 * NS) \div 10)
    THEN (IF tempNoise > (2 * NS) \div 10 THEN "snow" ELSE "desert")
    ELSE "desert"

\* a classifier that lets Math.random choose the sign of the temperature sample
getBiomeWithMathRandom(gen, worldX, worldZ) ==
    LET noiseValue == fbm(gen.noise, worldX * 20, worldZ * 20, 3, 2, NS \div 2)
        sample == noise2D(gen.noise, worldX * 14, worldZ * 14)
        tempNoise == IF mathRandom % 2 = 0 THEN sample ELSE -sample
    IN BiomeOf(noiseValue, tempNoise)

\* getBiome(worldX, worldZ) for integer world coordinates: scale = 0.002,
\* so worldX * scale is 20 * worldX / NS and worldX * scale * 0.7 is
\* 14 * worldX / NS
getBiome(gen, worldX, worldZ) ==
    LET noiseValue == fbm(gen.noise, worldX * 20, worldZ * 20, 3, 2, NS \div 2)
        tempNoise == noise2D(gen.noise, worldX * 14, worldZ * 14)
    IN BiomeOf(noiseValue, tempNoise)

\* Math.sin of an angle given in 1/1000 rad, result in 1/1000
\* (16 t (pi - t) / (5 pi^2 - 4 t (pi - t)) on a half period)
MathSin(a) ==
    LET r == a % 6283
        th == IF r >= 3142 THEN r - 3142 ELSE r
        p == th * (3142 - th)
        v == ((((16 * p) \div 100) * 1000) \div ((49348022 - 4 * p) \div 100))
    IN IF r >= 3142 THEN -v ELSE v

\* x * 12.9898 + z * 78.233 in 1/1000, x and z in 1/LS
HashAngle(x, z) ==
    ((x \div LS) * 129898) \div 10 + (((x % LS) \div 10) * 12990) \div (LS \div 10)
    + (z \div LS) * 78233 + (((z % LS) \div 20) * 78233) \div (LS \div 20)

\* a draw that also depends on the state of Math.random
seededRandomOfMathRandom(gen, x, z, offset) ==
    LET s == MathSin(HashAngle(x, z) + (offset + gen.seed + mathRandom) * 1000)
        n == s * 43758 + (s * 5453) \div 10000
    IN n % RS

\* seededRandom(x, z, offset): n = sin(x * 12.9898 + z * 78.233 + offset + seed)
\* * 43758.5453; n - floor(n).  x and z in 1/LS, offset an integer, result in 1/RS
seededRandom(gen, x, z, offset) ==
    LET s == MathSin(HashAngle(x, z) + (offset + gen.seed) * 1000)
        n == s * 43758 + (s * 5453) \div 10000
    IN n % RS

\* Math.random(): the engine's generator, a hidden state the program does
\* not seed; MathRandomValue is the draw in 1/RngPeriod, MathRandomNext the
\* state after the draw
RngPeriod == 16
MathRandomValue(rng) == rng
MathRandomNext(rng) == (5 * rng + 3) % RngPeriod

RECURSIVE MathRandomAdvance(_, _)
MathRandomAdvance(rng, n) == IF n <= 0 THEN rng ELSE MathRandomAdvance(MathRandomNext(rng), n - 1)

\* a visual object added to a group
Visual(kind, x, y, z, sx, sy, sz, rot, material) ==
    [kind |-> kind, x |-> x, y |-> y, z |-> z, sx |-> sx, sy |-> sy, sz |-> sz,
     rot |-> rot, material |-> material]

\* a CANNON.Body({ mass: 0, type: STATIC }) with one shape; for a sphere the
\* three half-sizes are the radius
Body(shape, x, y, z, hx, hy, hz) ==
    [shape |-> shape, x |-> x, y |-> y, z |-> z, hx |-> hx, hy |-> hy, hz |-> hz,
     mass |-> 0, type |-> "static"]

\* what a synthesis step adds: visuals (group.add), bodies (physics.addBody
\* and bodies.push), and the number of Math.random draws it made
NoContent == [visuals |-> <<>>, bodies |-> <<>>, draws |-> 0]
Join(a, b) == [visuals |-> a.visuals \o b.visuals, bodies |-> a.bodies \o b.bodies,
               draws |-> a.draws + b.draws]

RECURSIVE JoinAll(_)
JoinAll(parts) == IF Len(parts) = 0 THEN NoContent ELSE Join(Head(parts), JoinAll(Tail(parts)))

\* addRoadMarkings
addRoadMarkings(worldX, worldZ, isHorizontal, chunkSize) ==
    LET numMarkings == chunkSize \div 8
        startOffset == (-chunkSize * LS) \div 2 + 4 * LS
    IN [visuals |->
          [n \in 1..numMarkings |->
             IF isHorizontal
             THEN Visual("marking", worldX + startOffset + (n - 1) * 8 * LS, (3 * LS) \div 100,
                         worldZ, 3 * LS, 0, (3 * LS) \div 10, 0, "roadMarking")
             ELSE Visual("marking", worldX, (3 * LS) \div 100,
                         worldZ + startOffset + (n - 1) * 8 * LS,
                         (3 * LS) \div 10, 0, 3 * LS, 0, "roadMarking")],
        bodies |-> <<>>, draws |-> 0]


\* generateRoads
generateRoads(chunkX, chunkZ) ==
    LET chunkSize == CHUNK_SIZE
        worldX == chunkX * chunkSize * LS + (chunkSize * LS) \div 2
        worldZ == chunkZ * chunkSize * LS + (chunkSize * LS) \div 2
        hasHorizontalRoad == JsRem(chunkZ, 2) = 0
        hasVerticalRoad == JsRem(chunkX, 2) = 0
        horizontal ==
            IF hasHorizontalRoad
            THEN Join([visuals |-> <<Visual("road", worldX, (2 * LS) \div 100, worldZ,
                                            chunkSize * LS, 0, 15 * LS, 0, "road")>>,
                       bodies |-> <<>>, draws |-> 0],
                      addRoadMarkings(worldX, worldZ, TRUE, chunkSize))
            ELSE NoContent
        vertical ==
            IF hasVerticalRoad
            THEN Join([visuals |-> <<Visual("road", worldX, (2 * LS) \div 100, worldZ,
                                            15 * LS, 0, chunkSize * LS, 0, "road")>>,
                       bodies |-> <<>>, draws |-> 0],
                      addRoadMarkings(worldX, worldZ, FALSE, chunkSize))
            ELSE NoContent
    IN Join(horizontal, vertical)

\* a draw r scaled by a length of k world units: r * k, in 1/LS
Scaled(r, k) == r * k * (LS \div RS)
\* (r - 0.5) * k, in 1/LS
Centered(r, k) == (r - RS \div 2) * k * (LS \div RS)

\* a building whose box shape takes the full sizes as half-extents
createBuildingFullExtents(gen, x, z, width, height, depth) ==
    LET material == IF seededRandom(gen, x, z, 0) > RS \div 2 THEN "building" ELSE "buildingDark"
    IN [visuals |-> <<Visual("building", x, height \div 2, z, width, height, depth, 0, material)>>,
        bodies |-> <<Body("box", x, height \div 2, z, width, height, depth)>>,
        draws |-> 0]

\* createBuilding
createBuilding(gen, x, z, width, height, depth) ==
    LET material == IF seededRandom(gen, x, z, 0) > RS \div 2 THEN "building" ELSE "buildingDark"
    IN [visuals |-> <<Visual("building", x, height \div 2, z, width, height, depth, 0, material)>>,
        bodies |-> <<Body("box", x, height \div 2, z, width \div 2, height \div 2, depth \div 2)>>,
        draws |-> 0]

\* createTree: a group of trunk and foliage placed at (x, 0, z)
createTree(x, z) ==
    [visuals |-> <<Visual("tree", x, 0, z, 0, 0, 0, 0, "tree")>>, bodies |-> <<>>, draws |-> 0]

\* createCactus
createCactus(x, z) ==
    [visuals |-> <<Visual("cactus", x, 2 * LS, z, 0, 0, 0, 0, "cactus")>>,
     bodies |-> <<>>, draws |-> 0]

\* a rock that takes its size, not only its rotation, from Math.random
createRockRandomSize(rng, x, z, scale, material) ==
    LET size == (scale * (RngPeriod + MathRandomValue(rng))) \div RngPeriod
    IN [visuals |-> <<Visual("rock", x, (size * 3) \div 4, z, size, size, size,
                             MathRandomValue(rng), material)>>,
        bodies |-> <<Body("sphere", x, (size * 3) \div 4, z,
                          (size * 6) \div 5, (size * 6) \div 5, (size * 6) \div 5)>>,
        draws |-> 1]

\* createRock: rng is the state of Math.random when the rock is created
createRock(rng, x, z, scale, material) ==
    [visuals |-> <<Visual("rock", x, (scale * 3) \div 4, z, scale, scale, scale,
                          MathRandomValue(rng), material)>>,
     bodies |-> <<Body("sphere", x, (scale * 3) \div 4, z,
                       (scale * 6) \div 5, (scale * 6) \div 5, (scale * 6) \div 5)>>,
     draws |-> 1]

\* a building row that stands 10 units from the cell centre
roadSideOffsetOnRoad(i) == (IF i = 0 THEN -1 ELSE 1) * 10 * LS

\* i === 0 ? -30 : 30
roadSideOffset(i) == (IF i = 0 THEN -1 ELSE 1) * 30 * LS

\* the salts addBuildingsAlongRoad hands to seededRandom (i = 0, 1)
RoadSalts == {i * k : i \in 0..1, k \in {100, 110, 120, 130, 200, 210, 220, 230}}

\* addBuildingsAlongRoad with R[offset] standing for
\* this.seededRandom(chunkX, chunkZ, offset); worldX, worldZ in world units
addBuildingsAlongRoadDrawing(R, gen, worldX, worldZ, chunkX, chunkZ) ==
    LET chunkSize == CHUNK_SIZE
        hasHRoad == JsRem(chunkZ, 2) = 0
        hasVRoad == JsRem(chunkX, 2) = 0
        alongH ==
            IF hasHRoad /\ ~hasVRoad
            THEN JoinAll([n \in 1..2 |->
                   LET i == n - 1
                       offsetX == Centered(R[i * 100], chunkSize - 30)
                       offsetZ == roadSideOffset(i)
                       width == 15 * LS + Scaled(R[i * 110], 10)
                       height == 15 * LS + Scaled(R[i * 120], 25)
                       depth == 12 * LS + Scaled(R[i * 130], 8)
                   IN createBuilding(gen,
                                     worldX * LS + (chunkSize * LS) \div 2 + offsetX,
                                     worldZ * LS + (chunkSize * LS) \div 2 + offsetZ,
                                     width, height, depth)])
            ELSE NoContent
        alongV ==
            IF hasVRoad /\ ~hasHRoad
            THEN JoinAll([n \in 1..2 |->
                   LET i == n - 1
                       offsetX == roadSideOffset(i)
                       offsetZ == Centered(R[i * 200], chunkSize - 30)
                       width == 12 * LS + Scaled(R[i * 210], 8)
                       height == 15 * LS + Scaled(R[i * 220], 25)
                       depth == 15 * LS + Scaled(R[i * 230], 10)
                   IN createBuilding(gen,
                                     worldX * LS + (chunkSize * LS) \div 2 + offsetX,
                                     worldZ * LS + (chunkSize * LS) \div 2 + offsetZ,
                                     width, height, depth)])
            ELSE NoContent
    IN Join(alongH, alongV)

\* addBuildingsAlongRoad
addBuildingsAlongRoad(gen, worldX, worldZ, chunkX, chunkZ) ==
    addBuildingsAlongRoadDrawing(
        [offset \in RoadSalts |-> seededRandom(gen, chunkX * LS, chunkZ * LS, offset)],
        gen, worldX, worldZ, chunkX, chunkZ)

\* a city block whose buildings are spread over the whole cell
generateCityContentWholeCell(R, gen, worldX, worldZ, chunkX, chunkZ) ==
    LET chunkSize == CHUNK_SIZE
    IN IF JsRem(chunkX, 2) = 0 \/ JsRem(chunkZ, 2) = 0
       THEN addBuildingsAlongRoadDrawing(R, gen, worldX, worldZ, chunkX, chunkZ)
       ELSE LET numBuildings == 2 + (R[0] * 3) \div RS
            IN JoinAll([n \in 1..numBuildings |->
                 LET i == n - 1
                     offsetX == Centered(R[i * 10], chunkSize)
                     offsetZ == Centered(R[i * 10 + 5], chunkSize)
                     width == 10 * LS + Scaled(R[i * 20], 15)
                     height == 20 * LS + Scaled(R[i * 30], 40)
                     depth == 10 * LS + Scaled(R[i * 40], 15)
                 IN createBuilding(gen,
                                   worldX * LS + (chunkSize * LS) \div 2 + offsetX,
                                   worldZ * LS + (chunkSize * LS) \div 2 + offsetZ,
                                   width, height, depth)])

\* the salts generateCityContent hands to seededRandom (i = 0..3), those of
\* addBuildingsAlongRoad included
CitySalts ==
    RoadSalts \cup {i * k : i \in 0..3, k \in {10, 20, 30, 40}} \cup {i * 10 + 5 : i \in 0..3}

\* generateCityContent with R[offset] standing for
\* this.seededRandom(chunkX, chunkZ, offset)
generateCityContentDrawing(R, gen, worldX, worldZ, chunkX, chunkZ) ==
    LET chunkSize == CHUNK_SIZE
    IN IF JsRem(chunkX, 2) = 0 \/ JsRem(chunkZ, 2) = 0
       THEN addBuildingsAlongRoadDrawing(R, gen, worldX, worldZ, chunkX, chunkZ)
       ELSE LET numBuildings == 2 + (R[0] * 3) \div RS
            IN JoinAll([n \in 1..numBuildings |->
                 LET i == n - 1
                     offsetX == Centered(R[i * 10], chunkSize - 30)
                     offsetZ == Centered(R[i * 10 + 5], chunkSize - 30)
                     width == 10 * LS + Scaled(R[i * 20], 15)
                     height == 20 * LS + Scaled(R[i * 30], 40)
                     depth == 10 * LS + Scaled(R[i * 40], 15)
                 IN createBuilding(gen,
                                   worldX * LS + (chunkSize * LS) \div 2 + offsetX,
                                   worldZ * LS + (chunkSize * LS) \div 2 + offsetZ,
                                   width, height, depth)])

\* generateCityContent
generateCityContent(gen, rng, worldX, worldZ, chunkX, chunkZ) ==
    generateCityContentDrawing(
        [offset \in CitySalts |-> seededRandom(gen, chunkX * LS, chunkZ * LS, offset)],
        gen, worldX, worldZ, chunkX, chunkZ)

\* the salts generateSuburbanContent hands to seededRandom (houses i = 0..1,
\* trees i = 0..5)
SuburbanSalts ==
    {i * k : i \in 0..1, k \in {50, 60, 70, 80, 90}} \cup {500}
        \cup {i * k : i \in 0..5, k \in {300, 310}}

\* generateSuburbanContent with R[offset] standing for
\* this.seededRandom(chunkX, chunkZ, offset)
generateSuburbanContentDrawing(R, gen, worldX, worldZ, chunkX, chunkZ) ==
    LET chunkSize == CHUNK_SIZE
        houses ==
            IF JsRem(chunkX, 2) # 0 /\ JsRem(chunkZ, 2) # 0
            THEN LET numHouses == 1 + (R[0] * 2) \div RS
                 IN JoinAll([n \in 1..numHouses |->
                      LET i == n - 1
                          offsetX == Centered(R[i * 50], chunkSize - 20)
                          offsetZ == Centered(R[i * 60], chunkSize - 20)
                          width == 8 * LS + Scaled(R[i * 70], 6)
                          height == 5 * LS + Scaled(R[i * 80], 4)
                          depth == 8 * LS + Scaled(R[i * 90], 6)
                      IN createBuilding(gen,
                                        worldX * LS + (chunkSize * LS) \div 2 + offsetX,
                                        worldZ * LS + (chunkSize * LS) \div 2 + offsetZ,
                                        width, height, depth)])
            ELSE NoContent
        numTrees == 3 + (R[500] * 4) \div RS
        trees ==
            JoinAll([n \in 1..numTrees |->
              LET i == n - 1
                  offsetX == Centered(R[i * 300], chunkSize)
                  offsetZ == Centered(R[i * 310], chunkSize)
              IN createTree(worldX * LS + (chunkSize * LS) \div 2 + offsetX,
                            worldZ * LS + (chunkSize * LS) \div 2 + offsetZ)])
    IN Join(houses, trees)

\* generateSuburbanContent
generateSuburbanContent(gen, rng, worldX, worldZ, chunkX, chunkZ) ==
    generateSuburbanContentDrawing(
        [offset \in SuburbanSalts |-> seededRandom(gen, chunkX * LS, chunkZ * LS, offset)],
        gen, worldX, worldZ, chunkX, chunkZ)

\* generateDesertContent
generateDesertContent(gen, rng, worldX, worldZ, chunkX, chunkZ) ==
    LET chunkSize == CHUNK_SIZE
        cx == chunkX * LS
        cz == chunkZ * LS
        numCacti == 2 + (seededRandom(gen, cx, cz, 0) * 5) \div RS
        cacti ==
            JoinAll([n \in 1..numCacti |->
              LET i == n - 1
                  offsetX == Centered(seededRandom(gen, cx, cz, i * 400), chunkSize)
                  offsetZ == Centered(seededRandom(gen, cx, cz, i * 410), chunkSize)
              IN createCactus(worldX * LS + (chunkSize * LS) \div 2 + offsetX,
                              worldZ * LS + (chunkSize * LS) \div 2 + offsetZ)])
        numRocks == 1 + (seededRandom(gen, cx, cz, 100) * 3) \div RS
        rocks ==
            JoinAll([n \in 1..numRocks |->
              LET i == n - 1
                  offsetX == Centered(seededRandom(gen, cx, cz, i * 420), chunkSize)
                  offsetZ == Centered(seededRandom(gen, cx, cz, i * 430), chunkSize)
                  \* 0.5 + r * 1.5
                  scale == LS \div 2 + (Scaled(seededRandom(gen, cx, cz, i * 440), 3)) \div 2
              IN createRock(MathRandomAdvance(rng, i),
                            worldX * LS + (chunkSize * LS) \div 2 + offsetX,
                            worldZ * LS + (chunkSize * LS) \div 2 + offsetZ,
                            scale, "rockDesert")])
    IN Join(cacti, rocks)

\* generateForestContent
generateForestContent(gen, rng, worldX, worldZ, chunkX, chunkZ) ==
    LET chunkSize == CHUNK_SIZE
        cx == chunkX * LS
        cz == chunkZ * LS
        numTrees == 8 + (seededRandom(gen, cx, cz, 0) * 10) \div RS
        trees ==
            JoinAll([n \in 1..numTrees |->
              LET i == n - 1
                  offsetX == Centered(seededRandom(gen, cx, cz, i * 500), chunkSize)
                  offsetZ == Centered(seededRandom(gen, cx, cz, i * 510), chunkSize)
              IN createTree(worldX * LS + (chunkSize * LS) \div 2 + offsetX,
                            worldZ * LS + (chunkSize * LS) \div 2 + offsetZ)])
        numRocks == (seededRandom(gen, cx, cz, 200) * 3) \div RS
        rocks ==
            JoinAll([n \in 1..numRocks |->
              LET i == n - 1
                  offsetX == Centered(seededRandom(gen, cx, cz, i * 520), chunkSize)
                  offsetZ == Centered(seededRandom(gen, cx, cz, i * 530), chunkSize)
                  \* 0.3 + r * 0.8
                  scale == (3 * LS) \div 10 + (Scaled(seededRandom(gen, cx, cz, i * 540), 8)) \div 10
              IN createRock(MathRandomAdvance(rng, i),
                            worldX * LS + (chunkSize * LS) \div 2 + offsetX,
                            worldZ * LS + (chunkSize * LS) \div 2 + offsetZ,
                            scale, "rock")])
    IN Join(trees, rocks)

\* generateSnowContent
generateSnowContent(gen, rng, worldX, worldZ, chunkX, chunkZ) ==
    LET chunkSize == CHUNK_SIZE
        cx == chunkX * LS
        cz == chunkZ * LS
        numTrees == 4 + (seededRandom(gen, cx, cz, 0) * 6) \div RS
        trees ==
            JoinAll([n \in 1..numTrees |->
              LET i == n - 1
                  offsetX == Centered(seededRandom(gen, cx, cz, i * 600), chunkSize)
                  offsetZ == Centered(seededRandom(gen, cx, cz, i * 610), chunkSize)
              IN createTree(worldX * LS + (chunkSize * LS) \div 2 + offsetX,
                            worldZ * LS + (chunkSize * LS) \div 2 + offsetZ)])
        numRocks == 2 + (seededRandom(gen, cx, cz, 300) * 3) \div RS
        rocks ==
            JoinAll([n \in 1..numRocks |->
              LET i == n - 1
                  offsetX == Centered(seededRandom(gen, cx, cz, i * 620), chunkSize)
                  offsetZ == Centered(seededRandom(gen, cx, cz, i * 630), chunkSize)
                  \* 0.5 + r * 1.2
                  scale == LS \div 2 + (Scaled(seededRandom(gen, cx, cz, i * 640), 12)) \div 10
              IN createRock(MathRandomAdvance(rng, i),
                            worldX * LS + (chunkSize * LS) \div 2 + offsetX,
                            worldZ * LS + (chunkSize * LS) \div 2 + offsetZ,
                            scale, "snowRock")])
    IN Join(trees, rocks)

\* generateChunkContent: what it adds to objectsGroup and to the physics
\* world, the latter being also the list it returns
generateChunkContent(gen, rng, chunkX, chunkZ, biome) ==
    LET chunkWorldX == chunkX * CHUNK_SIZE
        chunkWorldZ == chunkZ * CHUNK_SIZE
        roads == IF biome = "city" \/ biome = "suburban"
                 THEN generateRoads(chunkX, chunkZ) ELSE NoContent
        content ==
            CASE biome = "city" ->
                   generateCityContent(gen, rng, chunkWorldX, chunkWorldZ, chunkX, chunkZ)
              [] biome = "suburban" ->
                   generateSuburbanContent(gen, rng, chunkWorldX, chunkWorldZ, chunkX, chunkZ)
              [] biome = "desert" ->
                   generateDesertContent(gen, rng, chunkWorldX, chunkWorldZ, chunkX, chunkZ)
              [] biome = "forest" ->
                   generateForestContent(gen, rng, chunkWorldX, chunkWorldZ, chunkX, chunkZ)
              [] biome = "snow" ->
                   generateSnowContent(gen, rng, chunkWorldX, chunkWorldZ, chunkX, chunkZ)
              [] OTHER -> NoContent
    IN Join(roads, content)

(***************************************************************************)
(* ChunkManager                                                            *)
(***************************************************************************)
\* a delete that leaves the entry in the map
MapDeleteKeepsEntry(m, key) == m

\* Map<string, ChunkData>: the entries in insertion order (the order in
\* which a for-of loop over the map visits them)
MapHas(m, key) == \E i \in 1..Len(m) : m[i].key = key
MapGet(m, key) == m[CHOOSE i \in 1..Len(m) : m[i].key = key]
MapSet(m, key, value) ==
    IF MapHas(m, key)
    THEN [i \in 1..Len(m) |-> IF m[i].key = key THEN value ELSE m[i]]
    ELSE Append(m, value)
MapDelete(m, key) == SelectSeq(m, LAMBDA e : e.key # key)
MapKeys(m) == {m[i].key : i \in 1..Len(m)}

\* a pop that reads the last element and leaves it in the array
PopLeavesElement(a) == a

\* Array.pop(): the array without its last element
PopRest(a) == SubSeq(a, 1, Len(a) - 1)
PopValue(a) == a[Len(a)]

\* initMaterials: the ground material of each biome
groundMaterials == [b \in BiomeTypes |-> <<"ground", b>>]

\* the program state an operation reads and writes, as one record
State ==
    [chunks |-> chunks, loadQueue |-> loadQueue, unloadQueue |-> unloadQueue,
     isProcessing |-> isProcessing, groundMeshPool |-> groundMeshPool,
     objectGroupPool |-> objectGroupPool, biomeGenerator |-> biomeGenerator,
     noise |-> noise, meshes |-> meshes, groups |-> groups, bodyCount |-> bodyCount,
     scene |-> scene, world |-> world, mathRandom |-> mathRandom,
     playerChunk |-> playerChunk,
     loadsInUpdate |-> loadsInUpdate, unloadsInUpdate |-> unloadsInUpdate,
     lastLoad |-> lastLoad, groundDonor |-> groundDonor, groupDonor |-> groupDonor,
     firstLoad |-> firstLoad, timesLoaded |-> timesLoaded,
     disposed |-> disposed, lastUnload |-> lastUnload, thrown |-> thrown]

Becomes(st) ==
    /\ chunks' = st.chunks
    /\ loadQueue' = st.loadQueue
    /\ unloadQueue' = st.unloadQueue
    /\ isProcessing' = st.isProcessing
    /\ groundMeshPool' = st.groundMeshPool
    /\ objectGroupPool' = st.objectGroupPool
    /\ biomeGenerator' = st.biomeGenerator
    /\ noise' = st.noise
    /\ meshes' = st.meshes
    /\ groups' = st.groups
    /\ bodyCount' = st.bodyCount
    /\ scene' = st.scene
    /\ world' = st.world
    /\ mathRandom' = st.mathRandom
    /\ playerChunk' = st.playerChunk
    /\ loadsInUpdate' = st.loadsInUpdate
    /\ unloadsInUpdate' = st.unloadsInUpdate
    /\ lastLoad' = st.lastLoad
    /\ groundDonor' = st.groundDonor
    /\ groupDonor' = st.groupDonor
    /\ firstLoad' = st.firstLoad
    /\ timesLoaded' = st.timesLoaded
    /\ disposed' = st.disposed
    /\ lastUnload' = st.lastUnload
    /\ thrown' = st.thrown

\* a cell mapping that rounds toward zero
CellOfTruncating(x, z) ==
    <<(IF x < 0 THEN -((-x) \div CHUNK_SIZE) ELSE x \div CHUNK_SIZE),
      (IF z < 0 THEN -((-z) \div CHUNK_SIZE) ELSE z \div CHUNK_SIZE)>>

\* Math.floor(x / CHUNK_SIZE), Math.floor(z / CHUNK_SIZE) of an integer
\* world position (update and getChunkAt)
CellOf(x, z) == <<x \div CHUNK_SIZE, z \div CHUNK_SIZE>>

\* the keys update computes for an observer in cell (playerChunkX, playerChunkZ),
\* in the order of its two nested loops
\* the two loops with < in place of <=
NeededSideExclusive == 2 * RENDER_DISTANCE

NeededSide == 2 * RENDER_DISTANCE + 1
NeededKeyAt(cell, n) ==
    ChunkKey(cell[1] + ((n - 1) \div NeededSide) - RENDER_DISTANCE,
             cell[2] + ((n - 1) % NeededSide) - RENDER_DISTANCE)
neededChunks(cell) == {NeededKeyAt(cell, n) : n \in 1..(NeededSide * NeededSide)}

\* QueueLoads that leaves its loops after the first push
QueueLoadsOnePerUpdate(map, queue, cell, n) ==
    LET missing == {m \in n..(NeededSide * NeededSide) :
                      ~MapHas(map, NeededKeyAt(cell, m)) /\ ~Includes(queue, NeededKeyAt(cell, m))}
    IN IF missing = {} THEN queue
       ELSE Append(queue, NeededKeyAt(cell, CHOOSE m \in missing : \A o \in missing : m <= o))

\* QueueLoads without the test this.chunks.has(key)
RECURSIVE QueueLoadsOfResident(_, _, _, _)
QueueLoadsOfResident(map, queue, cell, n) ==
    IF n > NeededSide * NeededSide THEN queue
    ELSE LET key == NeededKeyAt(cell, n)
         IN QueueLoadsOfResident(map,
                                 IF ~Includes(queue, key) THEN Append(queue, key) ELSE queue,
                                 cell, n + 1)

\* update, lines 90-102: queue for loading, from the n-th needed key on
RECURSIVE QueueLoads(_, _, _, _)
QueueLoads(map, queue, cell, n) ==
    IF n > NeededSide * NeededSide THEN queue
    ELSE LET key == NeededKeyAt(cell, n)
         IN QueueLoads(map,
                       IF ~MapHas(map, key) /\ ~Includes(queue, key)
                       THEN Append(queue, key) ELSE queue,
                       cell, n + 1)

\* the unload loop without the test !this.unloadQueue.includes(key)
RECURSIVE QueueUnloadsAgain(_, _, _, _)
QueueUnloadsAgain(map, queue, needed, i) ==
    IF i > Len(map) THEN queue
    ELSE QueueUnloadsAgain(map,
                           IF map[i].key \notin needed
                           THEN Append(queue, map[i].key) ELSE queue,
                           needed, i + 1)

\* an unload queue that lets go of the keys that are needed again
QueueUnloadsForgetsNeeded(map, queue, needed, i) ==
    LET kept == SelectSeq(queue, LAMBDA k : k \notin needed)
        far == SelectSeq([n \in 1..Len(map) |-> map[n].key],
                         LAMBDA k : k \notin needed /\ ~Includes(kept, k))
    IN kept \o far

\* update, lines 105-109: queue for unloading, from the i-th map entry on
RECURSIVE QueueUnloads(_, _, _, _)
QueueUnloads(map, queue, needed, i) ==
    IF i > Len(map) THEN queue
    ELSE QueueUnloads(map,
                      IF map[i].key \notin needed /\ ~Includes(queue, map[i].key)
                      THEN Append(queue, map[i].key) ELSE queue,
                      needed, i + 1)

\* an update that takes a key that is needed again out of the unload queue
updateQueuesCancelsUnload(st, x, z) ==
    LET cell == CellOf(x, z)
        needed == neededChunks(cell)
    IN [st EXCEPT !.loadQueue = QueueLoads(st.chunks, st.loadQueue, cell, 1),
                  !.unloadQueue = SelectSeq(QueueUnloads(st.chunks, st.unloadQueue, needed, 1),
                                            LAMBDA k : k \notin needed),
                  !.playerChunk = cell,
                  !.loadsInUpdate = 0,
                  !.unloadsInUpdate = 0]

\* update up to the call of processQueues
updateQueues(st, x, z) ==
    LET cell == CellOf(x, z)
    IN [st EXCEPT !.loadQueue = QueueLoads(st.chunks, st.loadQueue, cell, 1),
                  !.unloadQueue = QueueUnloads(st.chunks, st.unloadQueue, neededChunks(cell), 1),
                  !.playerChunk = cell,
                  !.loadsInUpdate = 0,
                  !.unloadsInUpdate = 0]

\* a body of the synthesizer's output as the object constructed for it
WithId(body, id) == [id |-> id] @@ body
WithoutId(body) == [f \in DOMAIN body \ {"id"} |-> body[f]]

\* what a reload must reproduce of a Cell Record: the biome, and kind,
\* position and size of every object and collision volume
Geometry(visual) == [f \in DOMAIN visual \ {"rot", "material"} |-> visual[f]]
Snapshot(biome, content) ==
    [biome |-> biome,
     visuals |-> [i \in 1..Len(content.visuals) |-> Geometry(content.visuals[i])],
     bodies |-> content.bodies]

\* a createGround that sets material and position only on the mesh it constructs
createGroundKeepsPooledMesh(st, chunkX, chunkZ, biome) ==
    LET pooled == Len(st.groundMeshPool) > 0
    IN [pooled |-> pooled,
        ground |-> IF pooled THEN PopValue(st.groundMeshPool) ELSE Len(st.meshes) + 1,
        mesh |-> IF pooled THEN st.meshes[PopValue(st.groundMeshPool)]
                 ELSE [material |-> groundMaterials[biome],
                       x |-> chunkX * CHUNK_SIZE * LS + (CHUNK_SIZE * LS) \div 2,
                       y |-> 0,
                       z |-> chunkZ * CHUNK_SIZE * LS + (CHUNK_SIZE * LS) \div 2],
        groundMeshPool |-> IF pooled THEN PopRest(st.groundMeshPool) ELSE st.groundMeshPool]

\* createGround: the mesh it returns (taken from the pool or constructed),
\* its material and position, and the pool after the call
createGround(st, chunkX, chunkZ, biome) ==
    LET pooled == Len(st.groundMeshPool) > 0
    IN [pooled |-> pooled,
        ground |-> IF pooled THEN PopValue(st.groundMeshPool) ELSE Len(st.meshes) + 1,
        mesh |-> [material |-> groundMaterials[biome],
                  x |-> chunkX * CHUNK_SIZE * LS + (CHUNK_SIZE * LS) \div 2,
                  y |-> 0,
                  z |-> chunkZ * CHUNK_SIZE * LS + (CHUNK_SIZE * LS) \div 2],
        groundMeshPool |-> IF pooled THEN PopRest(st.groundMeshPool) ELSE st.groundMeshPool]

\* a loadChunk that constructs its group and leaves the pool alone
takeGroupAlwaysNew(st) ==
    [pooled |-> FALSE,
     objects |-> Len(st.groups) + 1,
     objectGroupPool |-> st.objectGroupPool]

\* this.objectGroupPool.pop() || new THREE.Group(): the group and the pool
\* after the call
takeGroup(st) ==
    LET pooled == Len(st.objectGroupPool) > 0
    IN [pooled |-> pooled,
        objects |-> IF pooled THEN PopValue(st.objectGroupPool) ELSE Len(st.groups) + 1,
        objectGroupPool |-> IF pooled THEN PopRest(st.objectGroupPool) ELSE st.objectGroupPool]

\* the bodies generateChunkContent constructs, as objects numbered from id + 1
WithIds(bodies, id) == [i \in 1..Len(bodies) |-> WithId(bodies[i], id + i)]

\* loadChunk from line 147 on: g is the result of createGround, o the group,
\* content what generateChunkContent put into the group and the physics world
storeChunk(st, key, chunkX, chunkZ, biome, g, o, content, physicsObjects) ==
    [st EXCEPT
       !.groundMeshPool = g.groundMeshPool,
       !.meshes = IF g.pooled THEN [@ EXCEPT ![g.ground] = g.mesh] ELSE Append(@, g.mesh),
       !.objectGroupPool = o.objectGroupPool,
       \* objects.clear(), then the group.add calls of generateChunkContent
       !.groups = IF o.pooled THEN [@ EXCEPT ![o.objects] = content.visuals]
                  ELSE Append(@, content.visuals),
       !.world = @ \cup SeqToSet(physicsObjects),
       !.bodyCount = @ + Len(content.bodies),
       !.mathRandom = MathRandomAdvance(@, content.draws),
       !.scene = @ \cup {<<"mesh", g.ground>>, <<"group", o.objects>>},
       !.chunks = MapSet(@, key, [key |-> key, x |-> chunkX, z |-> chunkZ, biome |-> biome,
                                  ground |-> g.ground, objects |-> o.objects,
                                  physicsObjects |-> physicsObjects, isLoaded |-> TRUE]),
       \* history
       !.loadsInUpdate = @ + 1,
       !.lastLoad = [key |-> key,
                     needed |-> key \in neededChunks(st.playerChunk),
                     groundPooled |-> g.pooled,
                     groupPooled |-> o.pooled,
                     groundDonor |-> IF g.ground \in DOMAIN st.groundDonor
                                     THEN st.groundDonor[g.ground] ELSE <<>>,
                     groupDonor |-> IF o.objects \in DOMAIN st.groupDonor
                                    THEN st.groupDonor[o.objects] ELSE <<>>,
                     ground |-> g.ground,
                     objects |-> o.objects,
                     groundFresh |-> g.ground > Len(st.meshes),
                     groupFresh |-> o.objects > Len(st.groups),
                     groundPoolBefore |-> st.groundMeshPool,
                     groupPoolBefore |-> st.objectGroupPool,
                     chunksBefore |-> st.chunks],
       !.firstLoad = IF key \in DOMAIN @ THEN @ ELSE (key :> Snapshot(biome, content)) @@ @,
       !.timesLoaded = IF key \in DOMAIN @ THEN [@ EXCEPT ![key] = @ + 1]
                       ELSE (key :> 1) @@ @]

\* loadChunk, lines 138-158, for the coordinates parsed from the key
loadChunkWithContent(st, key, chunkX, chunkZ, biome, content) ==
    storeChunk(st, key, chunkX, chunkZ, biome, createGround(st, chunkX, chunkZ, biome),
               takeGroup(st), content, WithIds(content.bodies, st.bodyCount))

loadChunkOfBiome(st, key, chunkX, chunkZ, biome) ==
    loadChunkWithContent(st, key, chunkX, chunkZ, biome,
                generateChunkContent(st.biomeGenerator, st.mathRandom, chunkX, chunkZ, biome))

\* loadChunk
loadChunk(st, key) ==
    LET parts == SplitComma(key, 1)
        chunkX == parseInt(parts[1])
        chunkZ == parseInt(parts[2])
    IN loadChunkOfBiome(st, key, chunkX, chunkZ,
                   getBiome(st.biomeGenerator, chunkX * CHUNK_SIZE, chunkZ * CHUNK_SIZE))

\* the collaborator calls of loadChunk and unloadChunk that may throw
LoadCalls == {"physicsWorld.addBody", "scene.add"}
UnloadCalls == {"scene.remove", "physicsWorld.removeBody"}

\* a processQueues that resets isProcessing in a finally block
throwFromFinally(st, fault) == [st EXCEPT !.thrown = fault, !.isProcessing = FALSE]

\* an exception thrown below processQueues: no try, catch or finally in
\* loadChunk, unloadChunk, processQueues and update, so the statements after
\* the throwing call are not executed, line 131 included
throwFrom(st, fault) == [st EXCEPT !.thrown = fault]

\* the first object of the content that comes with a body (createBuilding and
\* createRock call group.add, then physics.addBody)
FirstWithBody(content) ==
    CHOOSE n \in 1..Len(content.visuals) :
        /\ content.visuals[n].kind \in {"building", "rock"}
        /\ \A m \in 1..(n - 1) : content.visuals[m].kind \notin {"building", "rock"}

\* what generateChunkContent has done when its first physics.addBody throws:
\* the objects added to the group so far, one body constructed and not
\* added, the draw of Math.random if the object is a rock
ContentAtFirstBody(content) ==
    LET n == FirstWithBody(content)
    IN [visuals |-> SubSeq(content.visuals, 1, n),
        bodies |-> <<>>,
        constructed |-> 1,
        draws |-> IF content.visuals[n].kind = "rock" THEN 1 ELSE 0]

\* loadChunk up to the throwing call: g the result of createGround, o the
\* group, done what generateChunkContent did before the exception
loadChunkUpTo(st, g, o, done) ==
    [st EXCEPT
       !.groundMeshPool = g.groundMeshPool,
       !.meshes = IF g.pooled THEN [@ EXCEPT ![g.ground] = g.mesh] ELSE Append(@, g.mesh),
       !.objectGroupPool = o.objectGroupPool,
       !.groups = IF o.pooled THEN [@ EXCEPT ![o.objects] = done.visuals]
                  ELSE Append(@, done.visuals),
       !.world = @ \cup SeqToSet(WithIds(done.bodies, st.bodyCount)),
       !.bodyCount = @ + done.constructed,
       !.mathRandom = MathRandomAdvance(@, done.draws)]

\* loadChunk whose call of physicsWorld.addBody (the first one, in
\* generateChunkContent) or of scene.add (the first one, line 156) throws
loadChunkThrowingWith(st, chunkX, chunkZ, biome, content, at) ==
    loadChunkUpTo(st, createGround(st, chunkX, chunkZ, biome), takeGroup(st),
                  IF at = "physicsWorld.addBody" THEN ContentAtFirstBody(content)
                  ELSE [visuals |-> content.visuals, bodies |-> content.bodies,
                        constructed |-> Len(content.bodies), draws |-> content.draws])

loadChunkThrowingOfBiome(st, chunkX, chunkZ, biome, at) ==
    loadChunkThrowingWith(st, chunkX, chunkZ, biome,
                  generateChunkContent(st.biomeGenerator, st.mathRandom, chunkX, chunkZ, biome),
                  at)

loadChunkThrowing(st, key, at) ==
    LET parts == SplitComma(key, 1)
        chunkX == parseInt(parts[1])
        chunkZ == parseInt(parts[2])
    IN loadChunkThrowingOfBiome(st, chunkX, chunkZ,
                   getBiome(st.biomeGenerator, chunkX * CHUNK_SIZE, chunkZ * CHUNK_SIZE), at)

\* whether a load of key reaches a call of physicsWorld.addBody
loadChunkAddsBody(st, key) ==
    LET parts == SplitComma(key, 1)
        chunkX == parseInt(parts[1])
        chunkZ == parseInt(parts[2])
    IN Len(generateChunkContent(st.biomeGenerator, st.mathRandom, chunkX, chunkZ,
               getBiome(st.biomeGenerator, chunkX * CHUNK_SIZE, chunkZ * CHUNK_SIZE)).bodies) > 0

\* unloadChunk of a resident key whose call of scene.remove (the first one,
\* line 183) or of physicsWorld.removeBody (the first one, line 188) throws
unloadChunkThrowing(st, key, at) ==
    LET chunk == MapGet(st.chunks, key)
    IN IF at = "scene.remove" THEN st
       ELSE [st EXCEPT !.scene = @ \ {<<"mesh", chunk.ground>>, <<"group", chunk.objects>>}]

\* an unloadChunk that leaves the cell's bodies in the physics world
unloadChunkKeepsBodies(st, key) ==
    IF ~MapHas(st.chunks, key) THEN [st EXCEPT !.lastUnload = [key |-> key, absent |-> TRUE]]
    ELSE LET chunk == MapGet(st.chunks, key)
         IN [st EXCEPT
               !.scene = @ \ {<<"mesh", chunk.ground>>, <<"group", chunk.objects>>},
               !.groundMeshPool = Append(@, chunk.ground),
               !.objectGroupPool = Append(@, chunk.objects),
               !.chunks = MapDelete(@, key),
               !.unloadsInUpdate = @ + 1,
               !.lastUnload = [key |-> key, absent |-> FALSE],
               !.groundDonor = (chunk.ground :> key) @@ @,
               !.groupDonor = (chunk.objects :> key) @@ @]

\* an unloadChunk that reads chunk?.ground and chunk?.objects in place of the
\* early return, and pushes them (undefined, written 0) onto the pools
unloadChunkPoolsUndefined(st, key) ==
    IF ~MapHas(st.chunks, key)
    THEN [st EXCEPT !.groundMeshPool = Append(@, 0),
                    !.objectGroupPool = Append(@, 0),
                    !.lastUnload = [key |-> key, absent |-> TRUE]]
    ELSE LET chunk == MapGet(st.chunks, key)
         IN [st EXCEPT
               !.scene = @ \ {<<"mesh", chunk.ground>>, <<"group", chunk.objects>>},
               !.world = @ \ SeqToSet(chunk.physicsObjects),
               !.groundMeshPool = Append(@, chunk.ground),
               !.objectGroupPool = Append(@, chunk.objects),
               !.chunks = MapDelete(@, key),
               !.unloadsInUpdate = @ + 1,
               !.lastUnload = [key |-> key, absent |-> FALSE],
               !.groundDonor = (chunk.ground :> key) @@ @,
               !.groupDonor = (chunk.objects :> key) @@ @]

\* unloadChunk
unloadChunk(st, key) ==
    IF ~MapHas(st.chunks, key) THEN [st EXCEPT !.lastUnload = [key |-> key, absent |-> TRUE]]
    ELSE LET chunk == MapGet(st.chunks, key)
         IN [st EXCEPT
               !.scene = @ \ {<<"mesh", chunk.ground>>, <<"group", chunk.objects>>},
               !.world = @ \ SeqToSet(chunk.physicsObjects),
               !.groundMeshPool = Append(@, chunk.ground),
               !.objectGroupPool = Append(@, chunk.objects),
               !.chunks = MapDelete(@, key),
               \* history
               !.unloadsInUpdate = @ + 1,
               !.lastUnload = [key |-> key, absent |-> FALSE],
               !.groundDonor = (chunk.ground :> key) @@ @,
               !.groupDonor = (chunk.objects :> key) @@ @]

\* getChunkAt(worldX, worldZ): the record, or <<>> for undefined
getChunkAt(st, worldX, worldZ) ==
    LET cell == CellOf(worldX, worldZ)
        key == ChunkKey(cell[1], cell[2])
    IN IF MapHas(st.chunks, key) THEN MapGet(st.chunks, key) ELSE <<>>

\* processLoad with a while in place of the if: the whole queue in one frame
RECURSIVE processLoadWholeQueue(_)
processLoadWholeQueue(st) ==
    IF Len(st.loadQueue) > 0
    THEN processLoadWholeQueue(loadChunk([st EXCEPT !.loadQueue = Tail(@)], Head(st.loadQueue)))
    ELSE st

\* a processLoad that takes the key queued last (pop in place of shift)
processLoadNewestFirst(st) ==
    IF Len(st.loadQueue) > 0
    THEN loadChunk([st EXCEPT !.loadQueue = PopRest(@)], PopValue(st.loadQueue))
    ELSE st

\* processQueues, lines 119-123: one load per frame
processLoad(st) ==
    IF Len(st.loadQueue) > 0
    THEN loadChunk([st EXCEPT !.loadQueue = Tail(@)], Head(st.loadQueue))
    ELSE st

\* processUnload that shifts the key and forgets to unload it
processUnloadDropsKey(st) ==
    IF Len(st.unloadQueue) > 0
    THEN [st EXCEPT !.unloadQueue = Tail(@)]
    ELSE st

\* processQueues, lines 125-129: one unload per frame
processUnload(st) ==
    IF Len(st.unloadQueue) > 0
    THEN unloadChunk([st EXCEPT !.unloadQueue = Tail(@)], Head(st.unloadQueue))
    ELSE st

\* a loop over the entries that steps past the entry after each deleted one
RECURSIVE unloadAllByIndex(_, _)
unloadAllByIndex(st, i) ==
    IF i > Len(st.chunks) THEN st
    ELSE unloadAllByIndex(unloadChunk(st, st.chunks[i].key), i + 1)

\* dispose, lines 234-236: for (const key of this.chunks.keys()) unloadChunk(key).
\* The iterator of a Map visits every entry that is in the map when it gets
\* there: after the visited entry is deleted, the next one has taken its place.
RECURSIVE unloadAll(_, _)
unloadAll(st, i) ==
    IF i > Len(st.chunks) THEN st
    ELSE LET key == st.chunks[i].key
             next == unloadChunk(st, key)
         IN unloadAll(next, IF MapHas(next.chunks, key) THEN i + 1 ELSE i)

\* dispose
dispose(st) ==
    LET unloaded == unloadAll(st, 1)
    IN [unloaded EXCEPT
          !.disposed = @ \cup {<<"geometry", m>> : m \in SeqToSet(unloaded.groundMeshPool)}
                         \cup {groundMaterials[b] : b \in BiomeTypes}]

(***************************************************************************)
(* The observer                                                            *)
(***************************************************************************)
\* world positions handed to update: cells -1 and 0 along x
PositionsX == {-1, 0, 99}
PositionsZ == {50}

(***************************************************************************)
(* Initial state: new ChunkManager(scene, physicsWorld, 12345), before the *)
(* first frame                                                             *)
(***************************************************************************)
MathRandomSeeds == {0}

Init ==
    /\ chunks = <<>>
    /\ loadQueue = <<>>
    /\ unloadQueue = <<>>
    /\ isProcessing = FALSE
    /\ groundMeshPool = <<>>
    /\ objectGroupPool = <<>>
    /\ noise = SimplexNoise(WorldSeed)
    /\ biomeGenerator = BiomeGenerator(WorldSeed)
    /\ meshes = <<>>
    /\ groups = <<>>
    /\ bodyCount = 0
    /\ scene = {}
    /\ world = {}
    /\ mathRandom \in MathRandomSeeds
    /\ pc = "idle"
    /\ playerChunk = <<0, 0>>
    /\ moves = 0
    /\ ticks = 0
    /\ loadsInUpdate = 0
    /\ unloadsInUpdate = 0
    /\ lastLoad = <<>>
    /\ groundDonor = <<>>
    /\ groupDonor = <<>>
    /\ firstLoad = <<>>
    /\ timesLoaded = <<>>
    /\ disposed = {}
    /\ disposals = 0
    /\ lastUnload = <<>>
    /\ thrown = <<>>
    /\ call = <<>>
    /\ firstSynthesis = <<>>
    /\ calls = 0
    /\ players = <<>>
    /\ usedColors = {}
    /\ playerIdCounter = 0
    /\ sockets = <<>>
    /\ socketData = <<>>
    /\ now = 0
    /\ managers = <<>>
    /\ inbox = <<>>
    /\ handled = [joins |-> 0, leaves |-> 0, vehicleStates |-> 0, cleanups |-> 0]
    /\ notices = <<>>
    /\ lastJoin = <<>>
    /\ departed = {}

(***************************************************************************)
(* update(playerPosition), called once per frame by GameManager.animate,   *)
(* in its three consecutive steps                                          *)
(***************************************************************************)
\* lines 85-109, and processQueues up to isProcessing = true (or its return
\* when isProcessing is set)
Update(x, z) ==
    LET cell == CellOf(x, z)
    IN /\ pc = "idle"
       /\ cell = playerChunk \/ moves < MaxMoves
       /\ IF isProcessing
          THEN Becomes(updateQueues(State, x, z)) /\ pc' = "idle"
          ELSE Becomes([updateQueues(State, x, z) EXCEPT !.isProcessing = TRUE]) /\ pc' = "load"
       /\ moves' = IF cell = playerChunk THEN moves ELSE moves + 1
       /\ ticks' = Min(ticks + 1, MaxTicks)
       /\ UNCHANGED <<disposals, callVars, netVars>>

\* processQueues, lines 119-123
ProcessLoad ==
    /\ pc = "load"
    /\ Becomes(processLoad(State))
    /\ pc' = "unload"
    /\ UNCHANGED <<moves, ticks, disposals, callVars, netVars>>

\* processQueues, lines 125-131
ProcessUnload ==
    /\ pc = "unload"
    /\ Becomes([processUnload(State) EXCEPT !.isProcessing = FALSE])
    /\ pc' = "idle"
    /\ UNCHANGED <<moves, ticks, disposals, callVars, netVars>>

Next ==
    \/ \E x \in PositionsX, z \in PositionsZ : Update(x, z)
    \/ ProcessLoad
    \/ ProcessUnload

Spec == Init /\ [][Next]_vars

\* The frame loop never stops: animate requests the next frame, and an update
\* that has started runs to its end.  Every step of Next moves pc and a step
\* of Next is possible in every state, so weak fairness of Next is weak
\* fairness of the move of pc.
FrameAdvances == pc' \in {"idle", "load", "unload"} /\ pc' # pc
FairSpec == Spec /\ WF_pc(FrameAdvances)

(***************************************************************************)
(* update with a scene or a physics world that may throw                   *)
(***************************************************************************)
\* processQueues, lines 119-123, when loadChunk throws: the exception leaves
\* update; animate has requested the next frame before it called update
LoadThrows(c) ==
    /\ pc = "load"
    /\ Len(loadQueue) > 0
    /\ c = "physicsWorld.addBody" => loadChunkAddsBody(State, Head(loadQueue))
    /\ Becomes(throwFrom(loadChunkThrowing([State EXCEPT !.loadQueue = Tail(@)],
                                           Head(loadQueue), c),
                         [op |-> "loadChunk", key |-> Head(loadQueue), call |-> c,
                          tick |-> ticks]))
    /\ pc' = "idle"
    /\ UNCHANGED <<moves, ticks, disposals, callVars, netVars>>

\* processQueues, lines 125-129, when unloadChunk throws
UnloadThrows(c) ==
    /\ pc = "unload"
    /\ Len(unloadQueue) > 0
    /\ MapHas(chunks, Head(unloadQueue))
    /\ c = "physicsWorld.removeBody" =>
           Len(MapGet(chunks, Head(unloadQueue)).physicsObjects) > 0
    /\ Becomes(throwFrom(unloadChunkThrowing([State EXCEPT !.unloadQueue = Tail(@)],
                                             Head(unloadQueue), c),
                         [op |-> "unloadChunk", key |-> Head(unloadQueue), call |-> c,
                          tick |-> ticks]))
    /\ pc' = "idle"
    /\ UNCHANGED <<moves, ticks, disposals, callVars, netVars>>

FaultNext ==
    \/ \E x \in PositionsX, z \in PositionsZ : ticks < MaxFaultTicks /\ Update(x, z)
    \/ ProcessLoad
    \/ ProcessUnload
    \/ \E c \in LoadCalls : LoadThrows(c)
    \/ \E c \in UnloadCalls : UnloadThrows(c)

FaultSpec == Init /\ [][FaultNext]_vars

(***************************************************************************)
(* dispose() called between two frames                                     *)
(***************************************************************************)
Dispose ==
    /\ pc = "idle"
    /\ disposals < MaxDisposes
    /\ Becomes(dispose(State))
    /\ disposals' = disposals + 1
    /\ UNCHANGED <<pc, moves, ticks, callVars, netVars>>

DisposeNext ==
    \/ \E x \in PositionsX, z \in PositionsZ : ticks < MaxDisposeTicks /\ Update(x, z)
    \/ ProcessLoad
    \/ ProcessUnload
    \/ Dispose

DisposeSpec == Init /\ [][DisposeNext]_vars

(***************************************************************************)
(* The generator and the noise called directly, on the objects the         *)
(* constructor made                                                        *)
(***************************************************************************)
\* cells and biomes handed to generateChunkContent
CellsX == {-2, -1, 0, 1}
CellsZ == {-1, 0}

\* generateChunkContent(chunkX, chunkZ, biome, objectsGroup) returning content
SynthesizeContent(chunkX, chunkZ, biome, content) ==
    /\ call' = [op |-> "generateChunkContent", chunkX |-> chunkX, chunkZ |-> chunkZ,
                biome |-> biome, content |-> content]
    /\ firstSynthesis' = IF firstSynthesis = <<>> THEN call' ELSE firstSynthesis
    /\ mathRandom' = MathRandomAdvance(mathRandom, content.draws)

Synthesize(chunkX, chunkZ, biome) ==
    /\ calls < MaxCalls
    /\ SynthesizeContent(chunkX, chunkZ, biome,
                         generateChunkContent(biomeGenerator, mathRandom, chunkX, chunkZ, biome))
    /\ calls' = calls + 1
    /\ UNCHANGED <<managerVars, meshes, groups, bodyCount, scene, world, disposed, loopVars,
                   historyVars, netVars>>

\* seeds handed to the constructor: the game's seed, zero, and NaN
SeedArgs == <<WorldSeed, 0, "NaN">>

\* new ChunkManager(scene, physicsWorld, seed): the field initializers and
\* the constructor body, which has no throw statement
NewChunkManager(seed) ==
    [threw |-> FALSE,
     chunks |-> <<>>, loadQueue |-> <<>>, unloadQueue |-> <<>>, isProcessing |-> FALSE,
     groundMeshPool |-> <<>>, objectGroupPool |-> <<>>,
     noise |-> SimplexNoise(seed), biomeGenerator |-> BiomeGenerator(seed)]

\* a second manager constructed with the n-th seed, before any synthesis
Construct(n) ==
    /\ calls = 0
    /\ call' = [op |-> "new ChunkManager", seed |-> SeedArgs[n],
                manager |-> NewChunkManager(SeedArgs[n])]
    /\ calls' = calls + 1
    /\ UNCHANGED <<managerVars, objectVars, loopVars, historyVars, firstSynthesis, netVars>>

\* arguments handed to fbm: coordinates in 1/NS, octave counts; lacunarity 2
\* and persistence 0.5 are the defaults
FbmCoordinates == {-15000, 0, 3700, 12345}
FbmOctaves == {0, 1, 3, 4}

\* the samples fbm(x, y, octaves, lacunarity) takes of noise2D
RECURSIVE FbmSamples(_, _, _, _, _, _)
FbmSamples(self, x, y, octaves, lacunarity, frequency) ==
    IF octaves <= 0 THEN {}
    ELSE {noise2D(self, x * frequency, y * frequency)}
         \cup FbmSamples(self, x, y, octaves - 1, lacunarity, frequency * lacunarity)

\* this.noise.fbm(x, y, octaves), before any synthesis
Fbm(x, y, octaves) ==
    /\ calls = 0
    /\ call' = [op |-> "fbm", x |-> x, y |-> y, octaves |-> octaves,
                samples |-> FbmSamples(noise, x, y, octaves, 2, 1),
                result |-> fbm(noise, x, y, octaves, 2, NS \div 2)]
    /\ calls' = calls + 1
    /\ UNCHANGED <<managerVars, objectVars, loopVars, historyVars, firstSynthesis, netVars>>

\* values a draw of seededRandom is given when the draws are chosen freely:
\* the least, the middle and the greatest of [0, 1); every length the
\* program derives from a draw is linear in it
DrawValues == {0, RS \div 2, RS - 1}
\* one draw per quantity (offset, width, height, depth: the tens digit of
\* the salt); the first building uses salt 0 for all four
DrawOf(draws, offset) == draws[(offset % 100) \div 10]

\* generateRoads and addBuildingsAlongRoad as generateChunkContent runs them
\* for a City cell on a road (generateCityContent, lines 176-179), with the
\* draws of seededRandom given; probed before any synthesis
SynthesizeCityRoadCell(chunkX, chunkZ, draws) ==
    /\ calls = 0
    /\ JsRem(chunkX, 2) = 0 \/ JsRem(chunkZ, 2) = 0
    /\ call' = [op |-> "cityRoadCell", chunkX |-> chunkX, chunkZ |-> chunkZ,
                biome |-> "city", draws |-> draws,
                content |-> Join(generateRoads(chunkX, chunkZ),
                                 addBuildingsAlongRoadDrawing(
                                     [offset \in RoadSalts |-> DrawOf(draws, offset)],
                                     biomeGenerator,
                                     chunkX * CHUNK_SIZE, chunkZ * CHUNK_SIZE, chunkX, chunkZ))]
    /\ calls' = calls + 1
    /\ UNCHANGED <<managerVars, objectVars, loopVars, historyVars, firstSynthesis, netVars>>

CallNext ==
    \/ \E chunkX \in CellsX, chunkZ \in CellsZ, biome \in BiomeTypes :
          Synthesize(chunkX, chunkZ, biome)
    \/ \E chunkX \in CellsX, chunkZ \in CellsZ, draws \in [0..3 -> DrawValues] :
          SynthesizeCityRoadCell(chunkX, chunkZ, draws)
    \/ \E n \in 1..Len(SeedArgs) : Construct(n)
    \/ \E x \in FbmCoordinates, y \in FbmCoordinates, octaves \in FbmOctaves : Fbm(x, y, octaves)

CallSpec == Init /\ [][CallNext]_vars

(***************************************************************************)
(* The classifier and the building generators on inputs chosen freely      *)
(***************************************************************************)
\* values of the two noise samples of getBiome, in 1/NS: the ends of the
\* range and the values around the thresholds
NoiseValues == {-NS, -3001, -3000, -2999, -1, 0, 1, 2999, 3000, 3001, NS}
TempValues == {-NS, -1, 0, 1, 1999, 2000, 2001, NS}

\* getBiome from its line 59 on, with the two samples given
Classify(noiseValue, tempNoise) ==
    /\ calls = 0
    /\ call' = [op |-> "getBiome", noiseValue |-> noiseValue, tempNoise |-> tempNoise,
                result |-> BiomeOf(noiseValue, tempNoise)]
    /\ calls' = calls + 1
    /\ UNCHANGED <<managerVars, objectVars, loopVars, historyVars, firstSynthesis, netVars>>

\* the draw of each salt, one draw per class of salts: the salts of one
\* building that decide its place and its size along one axis fall into
\* different classes, unless the program itself uses one salt for both
DrawOfSalt(draws, offset) == draws[((offset % 100) \div 10) % 5]

\* generateCityContent (a block of buildings, or the rows along a road) with
\* the draws of seededRandom given
GenerateCityContent(chunkX, chunkZ, draws) ==
    /\ calls = 0
    /\ call' = [op |-> "generateCityContent", chunkX |-> chunkX, chunkZ |-> chunkZ,
                draws |-> draws,
                content |-> generateCityContentDrawing(
                                [offset \in CitySalts |-> DrawOfSalt(draws, offset)],
                                biomeGenerator,
                                chunkX * CHUNK_SIZE, chunkZ * CHUNK_SIZE, chunkX, chunkZ)]
    /\ calls' = calls + 1
    /\ UNCHANGED <<managerVars, objectVars, loopVars, historyVars, firstSynthesis, netVars>>

\* generateSuburbanContent with the draws of seededRandom given
GenerateSuburbanContent(chunkX, chunkZ, draws) ==
    /\ calls = 0
    /\ call' = [op |-> "generateSuburbanContent", chunkX |-> chunkX, chunkZ |-> chunkZ,
                draws |-> draws,
                content |-> generateSuburbanContentDrawing(
                                [offset \in SuburbanSalts |-> DrawOfSalt(draws, offset)],
                                biomeGenerator,
                                chunkX * CHUNK_SIZE, chunkZ * CHUNK_SIZE, chunkX, chunkZ)]
    /\ calls' = calls + 1
    /\ UNCHANGED <<managerVars, objectVars, loopVars, historyVars, firstSynthesis, netVars>>

\* integer seeds handed to the noise constructor: zero, small and large ones
\* of both signs, the multiplier of the generator, the ends of the 32-bit
\* range
NoiseSeeds == {0, 1, -1, 255, -256, 12345, -12345, 65536, -65537, 1103515245,
              -1103515245, 2147483647, -2147483647}

\* new SimplexNoise(seed), with the indices j of its shuffle
NewSimplexNoise(seed) ==
    /\ calls = 0
    /\ call' = [op |-> "new SimplexNoise", seed |-> seed, noise |-> SimplexNoise(seed),
                js |-> ShuffleLoop(SubSeq([n \in 1..PermSize |-> n - 1], 1, PermSize),
                                   seed).js]
    /\ calls' = calls + 1
    /\ UNCHANGED <<managerVars, objectVars, loopVars, historyVars, firstSynthesis, netVars>>

ProbeNext ==
    \/ \E noiseValue \in NoiseValues, tempNoise \in TempValues : Classify(noiseValue, tempNoise)
    \/ \E seed \in NoiseSeeds : NewSimplexNoise(seed)
    \/ \E chunkX \in CellsX, chunkZ \in CellsZ, draws \in [0..4 -> DrawValues] :
          GenerateCityContent(chunkX, chunkZ, draws)
    \/ \E chunkX \in CellsX, chunkZ \in CellsZ, draws \in [0..4 -> DrawValues] :
          GenerateSuburbanContent(chunkX, chunkZ, draws)

ProbeSpec == Init /\ [][ProbeNext]_vars

(***************************************************************************)
(* Properties                                                              *)
(***************************************************************************)
ChunkKeys == [i \in 1..Len(chunks) |-> chunks[i].key]

\* C1: in every state reached by update calls, whatever the observer does
\* between them, no key is in both the load queue and the unload queue, and
\* no key has more than one Cell Record.
QueuesDisjointOneRecordPerKey ==
    /\ SeqToSet(loadQueue) \cap SeqToSet(unloadQueue) = {}
    /\ NoDup(ChunkKeys)

\* both queues hold keys while records exist: the observer has moved
BothQueuesBusy ==
    /\ Len(loadQueue) >= 2
    /\ Len(unloadQueue) >= 2
    /\ Len(chunks) >= 2
    /\ moves >= 2

ObserverCells == {<<x \div CHUNK_SIZE, z \div CHUNK_SIZE>> : x \in PositionsX, z \in PositionsZ}

\* C2: streaming completeness.  If the observer's cell stays the same from
\* some update on, then after finitely many further updates the keys of the
\* chunk map are exactly the 5 x 5 needed keys around that cell, and they
\* stay so on every later update.
StreamingCompleteness ==
    \A c \in ObserverCells :
        <>[](playerChunk = c) => <>[](MapKeys(chunks) = neededChunks(c))

\* the observer has left the cell of the start and the world around the new
\* cell is complete
SettledAfterMove ==
    /\ pc = "idle"
    /\ moves >= 1
    /\ playerChunk # <<0, 0>>
    /\ MapKeys(chunks) = neededChunks(playerChunk)
    /\ Len(loadQueue) = 0
    /\ Len(unloadQueue) = 0
    /\ Len(groundMeshPool) > 0

\* C3: bounded work per update.  One update call performs at most one
\* loadChunk and at most one unloadChunk, however long the queues are and
\* however many cells entered or left the needed set in that call.
AtMostOneLoadOneUnloadPerUpdate ==
    /\ loadsInUpdate <= 1
    /\ unloadsInUpdate <= 1

\* an update has ended with one load and one unload done and both queues
\* still long
UpdateDoneQueuesStillLong ==
    /\ pc = "idle"
    /\ loadsInUpdate = 1
    /\ unloadsInUpdate = 1
    /\ Len(loadQueue) >= 3
    /\ Len(unloadQueue) >= 3

\* C4: pool single ownership.  No ground surface and no object group is
\* referenced by two Cell Records, and no resource in groundMeshPool or
\* objectGroupPool is referenced by a Cell Record or attached to the scene.
PoolSingleOwnership ==
    /\ \A i, j \in 1..Len(chunks) :
          i # j => /\ chunks[i].ground # chunks[j].ground
                   /\ chunks[i].objects # chunks[j].objects
    /\ \A p \in 1..Len(groundMeshPool) :
          /\ \A i \in 1..Len(chunks) : chunks[i].ground # groundMeshPool[p]
          /\ <<"mesh", groundMeshPool[p]>> \notin scene
    /\ \A p \in 1..Len(objectGroupPool) :
          /\ \A i \in 1..Len(chunks) : chunks[i].objects # objectGroupPool[p]
          /\ <<"group", objectGroupPool[p]>> \notin scene

\* a load has taken its ground and its group from the pools, and the pools
\* hold resources again, beside live Cell Records
PooledResourceReusedPoolsRefilled ==
    /\ lastLoad # <<>>
    /\ lastLoad.groundPooled
    /\ lastLoad.groupPooled
    /\ MapHas(chunks, lastLoad.key)
    /\ Len(groundMeshPool) >= 1
    /\ Len(objectGroupPool) >= 1

\* C5 as stated: every ground surface or object group a load takes from a
\* pool was returned to the pool by the unload of another key than the one
\* being loaded, and that other key has no Cell Record at the time of the
\* load; a resource is constructed only when the pool is empty.
PooledResourceFromOtherAbsentCell ==
    lastLoad # <<>> =>
        /\ lastLoad.groundPooled =>
              /\ lastLoad.groundDonor # <<>>
              /\ lastLoad.groundDonor # lastLoad.key
              /\ ~MapHas(lastLoad.chunksBefore, lastLoad.groundDonor)
        /\ lastLoad.groupPooled =>
              /\ lastLoad.groupDonor # <<>>
              /\ lastLoad.groupDonor # lastLoad.key
              /\ ~MapHas(lastLoad.chunksBefore, lastLoad.groupDonor)
        /\ lastLoad.groundFresh => Len(lastLoad.groundPoolBefore) = 0
        /\ lastLoad.groupFresh => Len(lastLoad.groupPoolBefore) = 0

\* C5 as amended: every ground surface or object group a load takes from a
\* pool was returned to the pool by an earlier unload, of whatever key, and
\* no Cell Record references it at the time of the load; a resource is
\* constructed only when the pool is empty.
PooledResourceReturnedAndUnreferenced ==
    lastLoad # <<>> =>
        /\ ~lastLoad.groundFresh =>
              /\ lastLoad.groundDonor # <<>>
              /\ \A i \in 1..Len(lastLoad.chunksBefore) :
                    lastLoad.chunksBefore[i].ground # lastLoad.ground
        /\ ~lastLoad.groupFresh =>
              /\ lastLoad.groupDonor # <<>>
              /\ \A i \in 1..Len(lastLoad.chunksBefore) :
                    lastLoad.chunksBefore[i].objects # lastLoad.objects
        /\ lastLoad.groundFresh => Len(lastLoad.groundPoolBefore) = 0
        /\ lastLoad.groupFresh => Len(lastLoad.groupPoolBefore) = 0

\* a load has taken from the pool the ground that the unload of its own key
\* returned
LoadTookItsOwnGround ==
    /\ lastLoad # <<>>
    /\ lastLoad.groundPooled
    /\ lastLoad.groundDonor = lastLoad.key

\* C7: stale loads are skipped.  A key that is no longer in the observer's
\* needed set when it reaches the front of the load queue is not loaded:
\* every load is of a key the running update needs.
StaleLoadsSkipped ==
    lastLoad # <<>> => lastLoad.needed

\* every key the observer of this model can need
AllKeys == UNION {neededChunks(c) : c \in ObserverCells}

KeyState(k) ==
    IF Includes(loadQueue, k) THEN "QueuedForLoad"
    ELSE IF MapHas(chunks, k)
    THEN (IF Includes(unloadQueue, k) THEN "QueuedForUnload" ELSE "Resident")
    ELSE "Absent"

LegalStep(from, to) ==
    \/ from = to
    \/ from = "Absent" /\ to = "QueuedForLoad"
    \/ from = "QueuedForLoad" /\ to = "Resident"
    \/ from = "Resident" /\ to = "QueuedForUnload"
    \/ from = "QueuedForUnload" /\ to = "Absent"

\* C6: per-key state machine.  Every change of state that the statements of
\* update make to a key is a step of Absent -> QueuedForLoad -> Resident ->
\* QueuedForUnload -> Absent; no key goes from QueuedForUnload to Resident,
\* from QueuedForLoad to Absent or from Resident to Absent in one step.
PerKeyStateMachine ==
    [][\A k \in AllKeys : LegalStep(KeyState(k), KeyState(k)')]_vars

\* a key that went once around the cycle and was loaded again waits to be
\* unloaded again
KeyInSecondCycle ==
    \E k \in AllKeys :
        /\ k \in DOMAIN timesLoaded
        /\ timesLoaded[k] >= 2
        /\ KeyState(k) = "QueuedForUnload"

\* the text of a cell coordinate of the start-up square
StartCoordinate ==
    (-2 :> <<"-", "2">>) @@ (-1 :> <<"-", "1">>) @@ (0 :> <<"0">>)
        @@ (1 :> <<"1">>) @@ (2 :> <<"2">>)
StartKeys ==
    {StartCoordinate[cx] \o <<",">> \o StartCoordinate[cz] : cx \in -2..2, cz \in -2..2}

\* C8: start-up.  For a new ChunkManager and an observer that stays in cell
\* (0,0), after k update calls exactly min(k, 25) cells are resident, and
\* after 25 calls the resident keys are the 25 keys "cx,cz" with cx, cz in
\* -2..2 and both queues are empty.  (ticks counts the calls up to MaxTicks.)
StartUpLoadsOnePerUpdate ==
    (pc = "idle" /\ moves = 0) =>
        /\ Len(chunks) = Min(ticks, 25)
        /\ Cardinality(MapKeys(chunks)) = Min(ticks, 25)
        /\ MapKeys(chunks) \subseteq StartKeys
        /\ ticks >= 25 =>
              /\ MapKeys(chunks) = StartKeys
              /\ Len(loadQueue) = 0
              /\ Len(unloadQueue) = 0

\* the observer never left cell (0,0) and more than 25 updates have run
StartUpComplete ==
    /\ pc = "idle"
    /\ moves = 0
    /\ ticks >= 26
    /\ Len(chunks) = 25

\* what a Cell Record holds of what a reload must reproduce
RecordSnapshot(chunk) ==
    [biome |-> chunk.biome,
     visuals |-> [i \in 1..Len(groups[chunk.objects]) |-> Geometry(groups[chunk.objects][i])],
     bodies |-> [i \in 1..Len(chunk.physicsObjects) |-> WithoutId(chunk.physicsObjects[i])]]

\* C9: idempotent reload.  A Cell Record, however many times its key was
\* unloaded and loaded again and whatever was loaded in between, has the
\* biome and the number, kinds, positions and sizes of structures and
\* collision volumes of the first load of that key.
ReloadReproducesFirstLoad ==
    \A i \in 1..Len(chunks) :
        /\ chunks[i].key \in DOMAIN firstLoad
        /\ RecordSnapshot(chunks[i]) = firstLoad[chunks[i].key]

\* a key with structures and collision volumes is resident after its second
\* load, made with another state of Math.random than the first
RockCellLoadedAgain ==
    \E i \in 1..Len(chunks) :
        /\ chunks[i].key \in DOMAIN timesLoaded
        /\ timesLoaded[chunks[i].key] >= 2
        /\ \E v \in 1..Len(groups[chunks[i].objects]) :
              /\ groups[chunks[i].objects][v].kind = "rock"
              /\ groups[chunks[i].objects][v].rot # 0
        /\ Len(chunks[i].physicsObjects) >= 1

CollaboratorsMatchRecords ==
    pc = "idle" =>
        /\ \A g \in 1..Len(meshes) :
              (<<"mesh", g>> \in scene) = (\E i \in 1..Len(chunks) : chunks[i].ground = g)
        /\ \A o \in 1..Len(groups) :
              (<<"group", o>> \in scene) = (\E i \in 1..Len(chunks) : chunks[i].objects = o)
        /\ scene \subseteq ({"mesh"} \X (1..Len(meshes))) \cup ({"group"} \X (1..Len(groups)))
        /\ world = UNION {SeqToSet(chunks[i].physicsObjects) : i \in 1..Len(chunks)}

\* an update is over, cells with bodies have been unloaded and others with
\* bodies are resident
UnloadedBodiesGoneResidentBodiesPresent ==
    /\ pc = "idle"
    /\ Len(groundMeshPool) > 0
    /\ world # {}
    /\ Cardinality(world) < bodyCount

\* the square of cell (cx, cz) holds the world position (x, z)
CellHolds(cx, cz, x, z) ==
    /\ cx * CHUNK_SIZE <= x /\ x < (cx + 1) * CHUNK_SIZE
    /\ cz * CHUNK_SIZE <= z /\ z < (cz + 1) * CHUNK_SIZE

\* world positions asked of getChunkAt: both sides of the cell borders at
\* -100, 0 and 100
AskedX == {-101, -100, -1, 0, 99, 100}
AskedZ == {-1, 50}

\* getChunkAt answers with the record of the cell that holds the position,
\* and with undefined when no record is of that cell
GetChunkAtAnswersHoldingCell ==
    \A x \in AskedX, z \in AskedZ :
        LET answer == getChunkAt(State, x, z)
        IN IF \E i \in 1..Len(chunks) : CellHolds(chunks[i].x, chunks[i].z, x, z)
           THEN answer # <<>> /\ CellHolds(answer.x, answer.z, x, z)
           ELSE answer = <<>>

\* C18  Cell mapping: update takes the observer at (x, z) to be in the cell
\* whose square holds (x, z), i.e. (floor(x/100), floor(z/100)), for negative
\* as for non-negative coordinates, and getChunkAt(x, z) returns the Cell
\* Record of exactly that cell when it is resident and undefined otherwise.
CellMappingFloors ==
    /\ []GetChunkAtAnswersHoldingCell
    /\ [][\A x \in PositionsX, z \in PositionsZ :
            (pc = "idle" /\ Update(x, z)) => CellHolds(playerChunk'[1], playerChunk'[2], x, z)]_vars

\* the observer at x = -1 is in cell -1, whose record getChunkAt(-1, 50)
\* returns, while the cell of (100, 50) has no record
NegativePositionInCellMinusOne ==
    /\ playerChunk = <<-1, 0>>
    /\ getChunkAt(State, -1, 50) # <<>>
    /\ getChunkAt(State, -1, 50).x = -1
    /\ getChunkAt(State, 0, 50) # <<>>
    /\ getChunkAt(State, 100, 50) = <<>>

\* C21  Re-entry policy, complete-then-reload: a pending unload is never
\* cancelled.  A key leaves the unload queue only at its front, by the unload
\* that deletes its record, whether or not it is needed again; a key is not
\* in the load queue while it has a record; and an update in which a key
\* without record is needed leaves it in the load queue.
PendingUnloadCompletesThenReloads ==
    [][\A k \in AllKeys :
         /\ (Includes(unloadQueue, k) /\ ~Includes(unloadQueue', k)) =>
                (pc = "unload" /\ Head(unloadQueue) = k /\ ~MapHas(chunks', k))
         /\ MapHas(chunks', k) => ~Includes(loadQueue', k)
         /\ (pc = "idle" /\ pc' = "load" /\ ~MapHas(chunks, k)
                /\ k \in neededChunks(playerChunk')) => Includes(loadQueue', k)]_vars

\* a key with a record is needed again while its unload is pending, and
\* another key has been unloaded and loaded again
NeededAgainWhileUnloadPending ==
    /\ \E k \in AllKeys :
          /\ Includes(unloadQueue, k)
          /\ MapHas(chunks, k)
          /\ k \in neededChunks(playerChunk)
    /\ \E j \in DOMAIN timesLoaded : timesLoaded[j] >= 2

\* C22  Needed keys are never forgotten: after the enqueue phase of every
\* update (before the queues are drained) every key of the needed set is
\* Resident (has a record and is not pending unload) or is in the load queue.
NeededResidentOrQueuedForLoad ==
    pc = "load" =>
        \A k \in neededChunks(playerChunk) :
            \/ MapHas(chunks, k) /\ ~Includes(unloadQueue, k)
            \/ Includes(loadQueue, k)

\* C22 as the program keeps it: after the enqueue phase every needed key has
\* a record (Resident, or pending an unload that will complete before the
\* key is queued again) or is in the load queue.
NeededHasRecordOrQueuedForLoad ==
    pc = "load" =>
        \A k \in neededChunks(playerChunk) : MapHas(chunks, k) \/ Includes(loadQueue, k)

\* after the enqueue phase needed keys are in all three conditions: resident,
\* in the load queue, and with a record whose unload is pending
NeededKeysInAllThreeConditions ==
    /\ pc = "load"
    /\ \E k \in neededChunks(playerChunk) : MapHas(chunks, k) /\ Includes(unloadQueue, k)
    /\ \E k \in neededChunks(playerChunk) : MapHas(chunks, k) /\ ~Includes(unloadQueue, k)
    /\ \E k \in neededChunks(playerChunk) : Includes(loadQueue, k)

\* queue b is queue a with keys appended at its end
Extends(a, b) == Len(b) >= Len(a) /\ SubSeq(b, 1, Len(a)) = a

\* C26  FIFO order: the load queue and the unload queue change only by keys
\* appended at their end or by the removal of their first key, which is the
\* key loaded (it gets its record) or unloaded (it loses its record) in that
\* step; so cells are loaded and unloaded in the order their keys were
\* appended and no key is overtaken by a key queued later.
QueuesServedInOrderOfArrival ==
    [][/\ loadQueue' # loadQueue =>
             \/ Extends(loadQueue, loadQueue')
             \/ /\ pc = "load"
                /\ loadQueue' = Tail(loadQueue)
                /\ lastLoad'.key = Head(loadQueue)
                /\ MapHas(chunks', Head(loadQueue))
       /\ unloadQueue' # unloadQueue =>
             \/ Extends(unloadQueue, unloadQueue')
             \/ /\ pc = "unload"
                /\ unloadQueue' = Tail(unloadQueue)
                /\ MapHas(chunks, Head(unloadQueue))
                /\ ~MapHas(chunks', Head(unloadQueue))]_vars

\* an update that loaded one key and unloaded one key from queues that still
\* hold two keys or more each
FirstKeysServedOthersWaiting ==
    /\ pc = "idle"
    /\ loadsInUpdate = 1
    /\ unloadsInUpdate = 1
    /\ Len(loadQueue) >= 2
    /\ Len(unloadQueue) >= 2

\* C27  Cell Record lifecycle: a key has a Cell Record from the moment it is
\* appended to the load queue, with its loaded flag false while it is queued
\* for load; the record has loaded = true only once its load step completed,
\* and is gone from the map once the cell is unloaded.
RecordCreatedWhenQueuedForLoad ==
    \A k \in AllKeys :
        /\ Includes(loadQueue, k) => MapHas(chunks, k) /\ ~MapGet(chunks, k).isLoaded
        /\ (MapHas(chunks, k) /\ MapGet(chunks, k).isLoaded) => k \in DOMAIN timesLoaded

\* C31  Recycled resources carry no state of their previous cell: the record
\* of a cell loaded with a ground or a group taken from the pools has what a
\* load with fresh ones gives it: the ground at the centre of the cell with
\* the material of the cell's biome, and in the group the objects synthesized
\* for the cell and no others (as many, of the kinds, places and sizes of the
\* first load of the key, all within the cell).
RecycledResourcesAsFresh ==
    (lastLoad # <<>> /\ MapHas(chunks, lastLoad.key)
        /\ (lastLoad.groundPooled \/ lastLoad.groupPooled)) =>
        LET chunk == MapGet(chunks, lastLoad.key)
            objects == groups[chunk.objects]
        IN /\ meshes[chunk.ground].material = <<"ground", chunk.biome>>
           /\ meshes[chunk.ground].x = (2 * chunk.x + 1) * (CHUNK_SIZE \div 2) * LS
           /\ meshes[chunk.ground].y = 0
           /\ meshes[chunk.ground].z = (2 * chunk.z + 1) * (CHUNK_SIZE \div 2) * LS
           /\ [i \in 1..Len(objects) |-> Geometry(objects[i])] = firstLoad[chunk.key].visuals
           /\ \A i \in 1..Len(objects) :
                 /\ chunk.x * CHUNK_SIZE * LS <= objects[i].x
                 /\ objects[i].x <= (chunk.x + 1) * CHUNK_SIZE * LS
                 /\ chunk.z * CHUNK_SIZE * LS <= objects[i].z
                 /\ objects[i].z <= (chunk.z + 1) * CHUNK_SIZE * LS

\* a cell with objects has just been loaded with the ground and the group
\* that the unloads of other cells returned, while its own first load had
\* fresh ones
RecycledFromOtherCells ==
    /\ pc = "unload"
    /\ lastLoad # <<>>
    /\ lastLoad.groundPooled /\ lastLoad.groupPooled
    /\ lastLoad.groundDonor # lastLoad.key
    /\ lastLoad.groupDonor # lastLoad.key
    /\ MapHas(chunks, lastLoad.key)
    /\ timesLoaded[lastLoad.key] >= 2
    /\ Len(groups[lastLoad.objects]) > 0

\* C32  Resource conservation: in every state reached by update calls the two
\* pools have the same length, and the number of ground meshes constructed
\* and the number of groups constructed are each the number of Cell Records
\* plus the length of the pool: load and unload cycles lose and duplicate
\* nothing.
ResourcesConserved ==
    /\ Len(groundMeshPool) = Len(objectGroupPool)
    /\ Len(meshes) = Len(chunks) + Len(groundMeshPool)
    /\ Len(groups) = Len(chunks) + Len(objectGroupPool)

\* after loads from the pools and unloads into them: records, pooled
\* resources, a key loaded twice, and fewer ground meshes constructed than
\* keys loaded
CyclesDoneWithFewerResourcesThanLoads ==
    /\ pc = "idle"
    /\ Len(chunks) >= 2
    /\ Len(groundMeshPool) >= 1
    /\ \E k \in DOMAIN timesLoaded : timesLoaded[k] >= 2
    /\ Len(meshes) < Cardinality(DOMAIN timesLoaded)

\* C33  Queue/record consistency: in every state reached by update calls, no
\* key of the load queue has a Cell Record, every key of the unload queue has
\* one, no key is twice in one queue, and the key handed to loadChunk had no
\* Cell Record when loadChunk was called.
QueuesConsistentWithRecords ==
    /\ \A i \in 1..Len(loadQueue) : ~MapHas(chunks, loadQueue[i])
    /\ \A i \in 1..Len(unloadQueue) : MapHas(chunks, unloadQueue[i])
    /\ NoDup(loadQueue)
    /\ NoDup(unloadQueue)
    /\ lastLoad # <<>> => ~MapHas(lastLoad.chunksBefore, lastLoad.key)

\* between the load and the unload of an update, with three keys or more
\* waiting in each queue and a key loaded for the second time
LongQueuesAfterReload ==
    /\ pc = "unload"
    /\ loadsInUpdate = 1
    /\ Len(loadQueue) >= 3
    /\ Len(unloadQueue) >= 3
    /\ \E k \in DOMAIN timesLoaded : timesLoaded[k] >= 2

(***************************************************************************)
(* Properties of update with a collaborator that throws                    *)
(***************************************************************************)
\* C23  Collaborator failure is fatal, not retried: when a scene or
\* collision-world call throws during a load or an unload, the exception
\* leaves update before the load or the unload is complete (the key of the
\* failed load has no record, the key of the failed unload keeps its record),
\* and no later update loads or unloads that key, or any other: from then on
\* the chunk map, the pools, the scene and the collision world stay as the
\* exception left them.
FailureLeavesUpdateAndIsNotRetried ==
    [][/\ (thrown = <<>> /\ thrown' # <<>>) =>
             /\ pc' = "idle"
             /\ thrown'.op = "loadChunk" => ~MapHas(chunks', thrown'.key)
             /\ thrown'.op = "unloadChunk" => MapHas(chunks', thrown'.key)
       /\ thrown # <<>> =>
             /\ thrown' = thrown
             /\ pc' = "idle"
             /\ chunks' = chunks
             /\ groundMeshPool' = groundMeshPool
             /\ objectGroupPool' = objectGroupPool
             /\ scene' = scene
             /\ world' = world]_vars

\* two updates after a load failed: its key is needed and queued for load
\* again, and has no record
FailedLoadQueuedAgainNeverLoaded ==
    /\ thrown # <<>>
    /\ thrown.op = "loadChunk"
    /\ ticks >= thrown.tick + 2
    /\ thrown.key \in neededChunks(playerChunk)
    /\ Includes(loadQueue, thrown.key)
    /\ ~MapHas(chunks, thrown.key)

(***************************************************************************)
(* Properties of update interleaved with dispose                           *)
(***************************************************************************)
\* C24  Queue disjointness with dispose interleaved: in every state reached by
\* update and dispose calls in any order, no key is in the load queue and in
\* the unload queue at once.
QueuesDisjointAcrossDispose ==
    \A k \in AllKeys : ~(Includes(loadQueue, k) /\ Includes(unloadQueue, k))

\* C25  dispose unloads everything: after a dispose call the chunk map is
\* empty, and the ground, the object group and every collision volume of each
\* record the map held before the call are out of the scene and out of the
\* collision world.
DisposeUnloadsEverything ==
    [][disposals' # disposals =>
         /\ chunks' = <<>>
         /\ \A i \in 1..Len(chunks) :
               /\ <<"mesh", chunks[i].ground>> \notin scene'
               /\ <<"group", chunks[i].objects>> \notin scene'
               /\ SeqToSet(chunks[i].physicsObjects) \cap world' = {}]_vars

\* dispose has unloaded several cells, some of them with collision volumes
DisposedSeveralCells ==
    /\ disposals = 1
    /\ unloadsInUpdate >= 3
    /\ bodyCount > 0
    /\ chunks = <<>>
    /\ scene = {}
    /\ world = {}

\* C30  Unloading an absent key is a no-op: when processQueues takes from the
\* unload queue a key that has no record (a stale entry), unloadChunk leaves
\* the chunk map, both pools, the scene and the collision world as they were.
UnloadOfAbsentKeyChangesNothing ==
    [][(pc = "unload" /\ Len(unloadQueue) > 0 /\ ~MapHas(chunks, Head(unloadQueue))) =>
         /\ unloadQueue' = Tail(unloadQueue)
         /\ chunks' = chunks
         /\ groundMeshPool' = groundMeshPool
         /\ objectGroupPool' = objectGroupPool
         /\ scene' = scene
         /\ world' = world]_vars

\* processQueues has handed unloadChunk a key left in the unload queue by a
\* dispose call, while other cells are resident
StaleKeyUnloaded ==
    /\ pc = "idle"
    /\ lastUnload # <<>>
    /\ lastUnload.absent
    /\ ~MapHas(chunks, lastUnload.key)
    /\ Len(chunks) > 0

(***************************************************************************)
(* Properties of the classifier and the building generators                *)
(***************************************************************************)
\* whether the footprint of a building (centre plus or minus half its width
\* and half its depth) lies within the square of cell (chunkX, chunkZ)
InsideCell(building, chunkX, chunkZ) ==
    /\ chunkX * CHUNK_SIZE * LS <= building.x - building.sx \div 2
    /\ building.x + building.sx \div 2 <= (chunkX + 1) * CHUNK_SIZE * LS
    /\ chunkZ * CHUNK_SIZE * LS <= building.z - building.sz \div 2
    /\ building.z + building.sz \div 2 <= (chunkZ + 1) * CHUNK_SIZE * LS

\* C28  Buildings stay inside their cell: in every cell, for a City block, a
\* City cell on a road and a Suburban cell, and for the least, the middle and
\* the greatest value of every draw, the footprint of every building lies
\* within the 100 x 100 square of the cell that generated it.
BuildingsInsideTheirCell ==
    (call # <<>> /\ call.op \in {"generateCityContent", "generateSuburbanContent"}) =>
        \A i \in 1..Len(call.content.visuals) :
            call.content.visuals[i].kind = "building" =>
                InsideCell(call.content.visuals[i], call.chunkX, call.chunkZ)

\* a City block of four buildings, one of them of the greatest width at the
\* greatest distance from the centre of the cell
WidestBuildingFarthestFromCentre ==
    /\ call # <<>>
    /\ call.op = "generateCityContent"
    /\ JsRem(call.chunkX, 2) # 0 /\ JsRem(call.chunkZ, 2) # 0
    /\ Len(call.content.visuals) = 4
    /\ \E i \in 1..Len(call.content.visuals) :
          /\ call.content.visuals[i].kind = "building"
          /\ call.content.visuals[i].sx > 24 * LS
          /\ call.content.visuals[i].x - call.chunkX * CHUNK_SIZE * LS > 84 * LS

\* C29  Biome bands: getBiome maps every pair (macro, secondary) to exactly
\* one of the five biomes: macro > 0.3 gives City if secondary > 0 and
\* Suburban otherwise; 0 < macro <= 0.3 gives Forest; -0.3 < macro <= 0 gives
\* Snow if secondary > 0.2 and Desert otherwise; macro <= -0.3 gives Desert.
BiomeBands ==
    (call # <<>> /\ call.op = "getBiome") =>
        LET macro == call.noiseValue
            secondary == call.tempNoise
        IN /\ call.result \in BiomeTypes
           /\ 10 * macro > 3 * NS =>
                 call.result = (IF secondary > 0 THEN "city" ELSE "suburban")
           /\ (0 < macro /\ 10 * macro <= 3 * NS) => call.result = "forest"
           /\ (-3 * NS < 10 * macro /\ macro <= 0) =>
                 call.result = (IF 10 * secondary > 2 * NS THEN "snow" ELSE "desert")
           /\ 10 * macro <= -3 * NS => call.result = "desert"

\* a pair on the edge of two bands: macro exactly 0.3 is Forest whatever the
\* secondary sample
MacroOnCityThresholdIsForest ==
    /\ call # <<>>
    /\ call.op = "getBiome"
    /\ 10 * call.noiseValue = 3 * NS
    /\ call.tempNoise > 0
    /\ call.result = "forest"

(***************************************************************************)
(* Properties of the generator and the noise called directly               *)
(***************************************************************************)
IsSynthesis(c) == c # <<>> /\ c.op = "generateChunkContent"
SameInput(a, b) == a.chunkX = b.chunkX /\ a.chunkZ = b.chunkZ /\ a.biome = b.biome

\* C11  Synthesis determinism: a call of generateChunkContent with the
\* (chunkX, chunkZ, biome) of the first call produces the same number of
\* objects and collision volumes, with the same kinds, positions and sizes,
\* as the first call did, whatever was synthesized in between.
SynthesisDeterministic ==
    (IsSynthesis(call) /\ SameInput(call, firstSynthesis)) =>
        Snapshot(call.biome, call.content) = Snapshot(firstSynthesis.biome, firstSynthesis.content)

\* the first input synthesized again after another cell whose rocks moved
\* Math.random on: same geometry, other rotations
ResynthesizedAfterOtherCells ==
    /\ calls >= 3
    /\ IsSynthesis(call)
    /\ SameInput(call, firstSynthesis)
    /\ Len(call.content.bodies) > 0
    /\ call.content.draws > 0
    /\ call.content.visuals # firstSynthesis.content.visuals

\* C12  Single source of randomness: every value drawn while synthesizing a
\* cell, the orientation of every placed object included, is a function of
\* (seed, coordinates, salt), so a call with the input of the first call
\* places every object as the first call did, orientation and material
\* included.
EveryDrawCoordinateSeeded ==
    (IsSynthesis(call) /\ SameInput(call, firstSynthesis)) =>
        call.content.visuals = firstSynthesis.content.visuals

\* the road strips among the objects of a synthesized cell: along the x axis
\* (chunkSize long in x, 15 wide in z) and along the z axis
RoadsAlongX(content) ==
    {i \in 1..Len(content.visuals) :
        content.visuals[i].kind = "road" /\ content.visuals[i].sx = CHUNK_SIZE * LS}
RoadsAlongZ(content) ==
    {i \in 1..Len(content.visuals) :
        content.visuals[i].kind = "road" /\ content.visuals[i].sz = CHUNK_SIZE * LS}

\* C13  Road presence: for every cell, negative coordinates included, and
\* every biome, the synthesized content has a road along the x axis exactly
\* when chunkZ is even and a road along the z axis exactly when chunkX is
\* even.
RoadPresenceByParityOnly ==
    IsSynthesis(call) =>
        /\ (RoadsAlongX(call.content) # {}) = (call.chunkZ % 2 = 0)
        /\ (RoadsAlongZ(call.content) # {}) = (call.chunkX % 2 = 0)

\* two road strips along x (or along z) that continue one another: same
\* width, same centre line, centres one cell apart
JoinAlongX(a, b) == a.sz = b.sz /\ a.z = b.z /\ Abs(a.x - b.x) = CHUNK_SIZE * LS
JoinAlongZ(a, b) == a.sx = b.sx /\ a.x = b.x /\ Abs(a.z - b.z) = CHUNK_SIZE * LS

\* C14  Road connectivity: two synthesized cells that are neighbours on an
\* even grid line (same even chunkZ and chunkX one apart, or same even chunkX
\* and chunkZ one apart) each have a road segment on that line, and the two
\* segments have the same width and the same centre line.
RoadsOfNeighboursJoin ==
    IsSynthesis(call) =>
        LET a == firstSynthesis.content
            b == call.content
        IN /\ (/\ call.chunkZ = firstSynthesis.chunkZ
               /\ call.chunkZ % 2 = 0
               /\ Abs(call.chunkX - firstSynthesis.chunkX) = 1) =>
                  /\ RoadsAlongX(a) # {}
                  /\ RoadsAlongX(b) # {}
                  /\ \A i \in RoadsAlongX(a), j \in RoadsAlongX(b) :
                        JoinAlongX(a.visuals[i], b.visuals[j])
           /\ (/\ call.chunkX = firstSynthesis.chunkX
               /\ call.chunkX % 2 = 0
               /\ Abs(call.chunkZ - firstSynthesis.chunkZ) = 1) =>
                  /\ RoadsAlongZ(a) # {}
                  /\ RoadsAlongZ(b) # {}
                  /\ \A i \in RoadsAlongZ(a), j \in RoadsAlongZ(b) :
                        JoinAlongZ(a.visuals[i], b.visuals[j])

\* the footprint of a building (centre plus or minus half width and depth)
\* meets the strip of a road
OnRoad(building, road) ==
    /\ 2 * Abs(building.x - road.x) < building.sx + road.sx
    /\ 2 * Abs(building.z - road.z) < building.sz + road.sz

OfKind(content, kind) == {i \in 1..Len(content.visuals) : content.visuals[i].kind = kind}

\* C15  No structure on a road: in every City or Suburban cell that has a
\* road (chunkX even or chunkZ even), synthesized with the draws of the seed
\* or with any draws, no building footprint meets a road strip of the cell.
NoBuildingOnRoad ==
    (/\ call # <<>>
     /\ call.op \in {"generateChunkContent", "cityRoadCell"}
     /\ call.biome \in {"city", "suburban"}
     /\ (call.chunkX % 2 = 0 \/ call.chunkZ % 2 = 0)) =>
        \A i \in OfKind(call.content, "building"), j \in OfKind(call.content, "road") :
            ~OnRoad(call.content.visuals[i], call.content.visuals[j])

\* a City cell with one road and its two buildings, the second as wide and
\* deep as the draws allow
WidestBuildingsBesideRoad ==
    /\ call # <<>>
    /\ call.op = "cityRoadCell"
    /\ call.draws[1] = RS - 1
    /\ call.draws[3] = RS - 1
    /\ Cardinality(OfKind(call.content, "building")) = 2
    /\ Cardinality(OfKind(call.content, "road")) = 1

\* C17  Configuration errors fail fast: constructing the manager with an
\* invalid seed (NaN) is rejected with an error and leaves no manager, not
\* even a partially constructed one.
InvalidSeedRejected ==
    (call # <<>> /\ call.op = "new ChunkManager" /\ IsNaN(call.seed)) =>
        /\ call.manager.threw
        /\ DOMAIN call.manager = {"threw"}

\* C19  Fractal range: when every noise2D sample it takes lies in [-1, 1],
\* fbm returns a number in [-1, 1] for every octave count, 0 and 1 included.
FbmWithinUnitRange ==
    (/\ call # <<>>
     /\ call.op = "fbm"
     /\ \A sample \in call.samples : -NS <= sample /\ sample <= NS) =>
        /\ ~IsNaN(call.result)
        /\ -NS <= call.result
        /\ call.result <= NS

\* the buildings and the box bodies of a synthesized cell, in the order of
\* their construction
BuildingsOf(content) == SelectSeq(content.visuals, LAMBDA v : v.kind = "building")
BoxesOf(content) == SelectSeq(content.bodies, LAMBDA b : b.shape = "box")

\* C20  Visual/collision match: every building placed by synthesis comes
\* with exactly one collision volume; the volume is static with zero mass,
\* is centred where the visual box is, and has half-extents equal to half
\* the box's width, height and depth.
BuildingHasMatchingStaticBox ==
    (call # <<>> /\ call.op \in {"generateChunkContent", "cityRoadCell"}) =>
        LET buildings == BuildingsOf(call.content)
            boxes == BoxesOf(call.content)
        IN /\ Len(boxes) = Len(buildings)
           /\ \A i \in 1..Len(buildings) :
                 /\ boxes[i].mass = 0
                 /\ boxes[i].type = "static"
                 /\ boxes[i].x = buildings[i].x
                 /\ boxes[i].y = buildings[i].y
                 /\ boxes[i].z = buildings[i].z
                 /\ 2 * boxes[i].hx = buildings[i].sx
                 /\ 2 * boxes[i].hy = buildings[i].sy
                 /\ 2 * boxes[i].hz = buildings[i].sz

\* a City cell off the roads synthesized with three buildings or more
CityBlockSynthesized ==
    /\ IsSynthesis(call)
    /\ call.biome = "city"
    /\ call.chunkX % 2 = 1
    /\ call.chunkZ % 2 = 1
    /\ Len(BuildingsOf(call.content)) >= 3
    /\ Len(call.content.bodies) = Len(BuildingsOf(call.content))

(***************************************************************************)
(* The multiplayer server: GameRoom                                        *)
(*                                                                         *)
(* A player id `player_${n}_${Date.now()}` is held as its counter n, which *)
(* no two ids share; 0 stands for the absent id (undefined, '').  A player *)
(* is held with the fields the room reads; null is <<>>.                   *)
(***************************************************************************)
MAX_PLAYERS == 20
VEHICLE_COLORS ==
    <<16724787, 3407667, 3355647, 16777011, 16724991,
      3407871, 16746547, 8926207, 3407752, 16724872,
      8978227, 3377407, 16755200, 43775, 11141375,
      65450, 11206400, 16711850, 8947848, 16777215>>
\* cleanupInactivePlayers: const timeout
timeout == 30000
\* the period of the server's setInterval
CleanupInterval == 10000
\* values of Math.floor(Math.random() * 0xffffff): the least, one that is a
\* colour of the palette, the greatest
FallbackColors == {0, 8947848, 16777214}

Room == [players |-> players, usedColors |-> usedColors,
         playerIdCounter |-> playerIdCounter]

BecomesRoom(room) ==
    /\ players' = room.players
    /\ usedColors' = room.usedColors
    /\ playerIdCounter' = room.playerIdCounter

isFullOverByOne(room) == Len(room.players) > MAX_PLAYERS

isFull(room) == Len(room.players) >= MAX_PLAYERS

getNextColor(room, random) ==
    LET free == {i \in 1..Len(VEHICLE_COLORS) : VEHICLE_COLORS[i] \notin room.usedColors}
    IN IF free # {}
       THEN LET first == CHOOSE i \in free : \A j \in free : i <= j
            IN [color |-> VEHICLE_COLORS[first],
                room |-> [room EXCEPT !.usedColors = @ \cup {VEHICLE_COLORS[first]}]]
       ELSE [color |-> random, room |-> room]

addPlayer(room, socketId, at, random) ==
    IF isFull(room)
    THEN [player |-> <<>>, room |-> room]
    ELSE LET counted == [room EXCEPT !.playerIdCounter = @ + 1]
             next == getNextColor(counted, random)
             player == [id |-> counted.playerIdCounter, socketId |-> socketId,
                        color |-> next.color, joinedAt |-> at, lastUpdate |-> at,
                        vehicleState |-> FALSE]
         IN [player |-> player,
             room |-> [next.room EXCEPT !.players = Append(@, player)]]

HasPlayer(room, playerId) == \E i \in 1..Len(room.players) : room.players[i].id = playerId

removePlayer(room, playerId) ==
    IF HasPlayer(room, playerId)
    THEN LET player == CHOOSE q \in SeqToSet(room.players) : q.id = playerId
         IN [removed |-> TRUE,
             room |-> [room EXCEPT !.usedColors = @ \ {player.color},
                                   !.players = SelectSeq(@, LAMBDA q : q.id # playerId)]]
    ELSE [removed |-> FALSE, room |-> room]

updateVehicleState(room, playerId, at) ==
    IF HasPlayer(room, playerId)
    THEN [state |-> playerId,
          room |-> [room EXCEPT !.players =
                        [i \in 1..Len(@) |->
                            IF @[i].id = playerId
                            THEN [@[i] EXCEPT !.lastUpdate = at, !.vehicleState = TRUE]
                            ELSE @[i]]]]
    ELSE [state |-> 0, room |-> room]

getAllPlayers(room) == [i \in 1..Len(room.players) |-> room.players[i].id]

RECURSIVE removeEach(_, _)
removeEach(room, ids) ==
    IF ids = <<>> THEN room
    ELSE removeEach(removePlayer(room, Head(ids)).room, Tail(ids))

cleanupInactivePlayers(room, at) ==
    LET inactive == SelectSeq(room.players, LAMBDA q : at - q.lastUpdate > timeout)
        removed == [i \in 1..Len(inactive) |-> inactive[i].id]
    IN [removed |-> removed, room |-> removeEach(room, removed)]

(***************************************************************************)
(* The server's handlers and the client's NetworkManager                   *)
(*                                                                         *)
(* An event or an acknowledgement sent to a socket is appended to the      *)
(* inbox of the socket when the socket belongs to a NetworkManager and is  *)
(* open; socket.io delivers the packets of one socket in the order sent.   *)
(***************************************************************************)
Event(event, playerId, all) ==
    [event |-> event, success |-> TRUE, playerId |-> playerId, players |-> all]

\* callback(success, playerId, players) of joinRoom
Ack(success, playerId, all) ==
    [event |-> "ack", success |-> success, playerId |-> playerId, players |-> all]

OpenSockets == {t \in DOMAIN sockets : sockets[t] = "open"}

emit(box, targets, message) ==
    [t \in DOMAIN box |->
        IF t \in targets /\ t \in OpenSockets THEN Append(box[t], message) ELSE box[t]]

RECURSIVE emitEach(_, _, _, _)
emitEach(box, targets, event, ids) ==
    IF ids = <<>> THEN box
    ELSE emitEach(emit(box, targets, Event(event, Head(ids), <<>>)), targets, event, Tail(ids))

\* io.on('connection') for a socket that is not the socket of a NetworkManager
Connection(s) ==
    /\ s \notin DOMAIN sockets
    /\ sockets' = sockets @@ (s :> "open")
    /\ socketData' = socketData @@ (s :> 0)
    /\ UNCHANGED <<worldVars, players, usedColors, playerIdCounter, now, clientVars,
                   handled, notices, lastJoin, departed>>

\* NetworkManager.connect up to the socket's 'connect' event, and
\* io.on('connection') on the server
connect(s) ==
    /\ s \notin DOMAIN sockets
    /\ sockets' = sockets @@ (s :> "open")
    /\ socketData' = socketData @@ (s :> 0)
    /\ managers' = managers @@ (s :> [playerId |-> 0, isConnected |-> FALSE,
                                      remoteVehicles |-> {}])
    /\ inbox' = inbox @@ (s :> <<>>)
    /\ UNCHANGED <<worldVars, players, usedColors, playerIdCounter, now,
                   handled, notices, lastJoin, departed>>

\* socket.on('joinRoom')
JoinRoom(s, random) ==
    /\ s \in OpenSockets
    /\ handled' = [handled EXCEPT !.joins = @ + 1]
    /\ departed' = departed \ {s}
    /\ IF isFull(Room)
       THEN /\ inbox' = emit(emit(inbox, {s}, Event("roomFull", 0, <<>>)),
                             {s}, Ack(FALSE, 0, <<>>))
            /\ lastJoin' = [socket |-> s, success |-> FALSE, playerId |-> 0]
            /\ UNCHANGED <<players, usedColors, playerIdCounter, socketData>>
       ELSE LET added == addPlayer(Room, s, now, random)
            IN IF added.player = <<>>
               THEN /\ inbox' = emit(inbox, {s}, Ack(FALSE, 0, <<>>))
                    /\ lastJoin' = [socket |-> s, success |-> FALSE, playerId |-> 0]
                    /\ UNCHANGED <<players, usedColors, playerIdCounter, socketData>>
               ELSE LET id == added.player.id
                        allPlayers == getAllPlayers(added.room)
                    IN /\ BecomesRoom(added.room)
                       /\ socketData' = [socketData EXCEPT ![s] = id]
                       /\ inbox' = emit(emit(emit(inbox,
                                        {s}, Event("gameState", 0, allPlayers)),
                                        OpenSockets \ {s}, Event("playerJoined", id, <<>>)),
                                        {s}, Ack(TRUE, id, allPlayers))
                       /\ lastJoin' = [socket |-> s, success |-> TRUE, playerId |-> id]
    /\ UNCHANGED <<worldVars, sockets, now, managers, notices>>

\* socket.on('vehicleState')
VehicleState(s) ==
    /\ s \in OpenSockets
    /\ handled' = [handled EXCEPT !.vehicleStates = @ + 1]
    /\ IF socketData[s] = 0
       THEN UNCHANGED <<players, usedColors, playerIdCounter, inbox>>
       ELSE LET updated == updateVehicleState(Room, socketData[s], now)
            IN /\ BecomesRoom(updated.room)
               /\ inbox' = IF updated.state # 0
                           THEN emit(inbox, OpenSockets \ {s},
                                     Event("vehicleUpdate", updated.state, <<>>))
                           ELSE inbox
    /\ UNCHANGED <<worldVars, sockets, socketData, now, managers, notices, lastJoin,
                   departed>>

\* the room after handlePlayerLeave(socket) and the ids it emits playerLeft for
handlePlayerLeave(room, playerId) ==
    IF playerId # 0
    THEN [room |-> removePlayer(room, playerId).room, left |-> <<playerId>>]
    ELSE [room |-> room, left |-> <<>>]

\* socket.on('leaveRoom')
LeaveRoom(s) ==
    /\ s \in OpenSockets
    /\ handled' = [handled EXCEPT !.leaves = @ + 1]
    /\ departed' = departed \cup {s}
    /\ LET leave == handlePlayerLeave(Room, socketData[s])
       IN /\ BecomesRoom(leave.room)
          /\ notices' = notices \o leave.left
          /\ inbox' = emitEach(inbox, OpenSockets, "playerLeft", leave.left)
    /\ UNCHANGED <<worldVars, sockets, socketData, now, managers, lastJoin>>

\* socket.on('disconnect') on the server and, for the socket of a
\* NetworkManager, on the client, where the packets not yet delivered are lost
Disconnect(s) ==
    /\ s \in OpenSockets
    /\ sockets' = [sockets EXCEPT ![s] = "closed"]
    /\ departed' = departed \cup {s}
    /\ LET leave == handlePlayerLeave(Room, socketData[s])
       IN /\ BecomesRoom(leave.room)
          /\ notices' = notices \o leave.left
          /\ inbox' = LET box == emitEach(inbox, OpenSockets \ {s}, "playerLeft", leave.left)
                      IN [t \in DOMAIN box |-> IF t = s THEN <<>> ELSE box[t]]
    /\ managers' = [t \in DOMAIN managers |->
                       IF t = s
                       THEN [managers[t] EXCEPT !.isConnected = FALSE, !.remoteVehicles = {}]
                       ELSE managers[t]]
    /\ UNCHANGED <<worldVars, socketData, now, handled, lastJoin>>

\* the callback of setInterval, CleanupInterval ms after the one before
Cleanup ==
    /\ now' = now + CleanupInterval
    /\ handled' = [handled EXCEPT !.cleanups = @ + 1]
    /\ LET cleaned == cleanupInactivePlayers(Room, now + CleanupInterval)
       IN /\ BecomesRoom(cleaned.room)
          /\ notices' = notices \o cleaned.removed
          /\ inbox' = emitEach(inbox, OpenSockets, "playerLeft", cleaned.removed)
    /\ UNCHANGED <<worldVars, sockets, socketData, managers, lastJoin, departed>>

\* the NetworkManager of socket s handles the next packet: the listeners of
\* setupEventListeners and the acknowledgement callback of connect (the
\* interpolator and the user callbacks are left out)
Deliver(s) ==
    /\ s \in DOMAIN managers
    /\ inbox[s] # <<>>
    /\ inbox' = [inbox EXCEPT ![s] = Tail(@)]
    /\ LET packet == Head(inbox[s])
           manager == managers[s]
       IN managers' = [managers EXCEPT ![s] =
            CASE packet.event = "gameState" ->
                    [manager EXCEPT !.remoteVehicles =
                        @ \cup {id \in SeqToSet(packet.players) : id # manager.playerId}]
              [] packet.event = "playerJoined" ->
                    [manager EXCEPT !.remoteVehicles =
                        IF packet.playerId # manager.playerId
                        THEN @ \cup {packet.playerId} ELSE @]
              [] packet.event = "playerLeft" ->
                    [manager EXCEPT !.remoteVehicles = @ \ {packet.playerId}]
              [] packet.event = "ack" /\ packet.success ->
                    [manager EXCEPT !.playerId = packet.playerId, !.isConnected = TRUE]
              [] OTHER -> manager]
    /\ UNCHANGED <<worldVars, roomVars, handled, notices, lastJoin, departed>>

(***************************************************************************)
(* The server with sockets that send its events in every order: a crowd of *)
(* sockets that connect and join once each, one after the other, then two  *)
(* sockets that connect, send joinRoom, leaveRoom and vehicleState and     *)
(* disconnect at will, while the cleanup timer runs                        *)
(***************************************************************************)
MaxCrowd == 19
MaxJoins == 3
MaxLeaves == 1
MaxVehicleStates == 1
MaxCleanups == 4

Actors == {1, 2}
Crowd == {2 + i : i \in 1..MaxCrowd}

\* the sockets of the crowd before s have joined
CrowdTurn(s) == \A t \in Crowd : t < s => (t \in DOMAIN sockets /\ socketData[t] # 0)

CrowdJoined == \A t \in Crowd : t \in DOMAIN sockets /\ handled.joins >= MaxCrowd

RoomNext ==
    \/ \E s \in Crowd : CrowdTurn(s) /\ Connection(s)
    \/ \E s \in Crowd, random \in FallbackColors :
          /\ CrowdTurn(s)
          /\ s \in DOMAIN sockets
          /\ socketData[s] = 0
          /\ JoinRoom(s, random)
    \/ \E s \in Actors : CrowdJoined /\ Connection(s)
    \/ \E s \in Actors, random \in FallbackColors :
          /\ handled.joins < MaxCrowd + MaxJoins
          /\ JoinRoom(s, random)
    \/ \E s \in Actors : handled.leaves < MaxLeaves /\ LeaveRoom(s)
    \/ \E s \in Actors : Disconnect(s)
    \/ \E s \in Actors : handled.vehicleStates < MaxVehicleStates /\ VehicleState(s)
    \/ CrowdJoined /\ handled.cleanups < MaxCleanups /\ Cleanup

RoomSpec == Init /\ [][RoomNext]_vars

(***************************************************************************)
(* The server with game clients: each NetworkManager connects, its socket  *)
(* sends joinRoom once on its 'connect' event, the client handles the      *)
(* packets it receives, sends vehicleState while it is connected, and its  *)
(* socket disconnects at any time                                          *)
(***************************************************************************)
Clients == {1, 2, 3}

ClientNext ==
    \/ \E s \in Clients : connect(s)
    \/ \E s \in Clients, random \in FallbackColors :
          /\ s \in DOMAIN sockets
          /\ socketData[s] = 0
          /\ JoinRoom(s, random)
    \/ \E s \in Clients : Deliver(s)
    \/ \E s \in Clients :
          /\ s \in DOMAIN managers
          /\ managers[s].isConnected
          /\ handled.vehicleStates < MaxVehicleStates
          /\ VehicleState(s)
    \/ \E s \in Clients : Disconnect(s)

ClientSpec == Init /\ [][ClientNext]_vars

(***************************************************************************)
(* Properties of the room and of the server's handlers                     *)
(***************************************************************************)
\* C34  Room capacity: after any sequence of joinRoom, leaveRoom, disconnect
\* and cleanup events the room holds MAX_PLAYERS players at most, and
\* addPlayer on a full room, whatever the socket, returns null and leaves
\* the players and the used colours as they were.
RoomCapacity ==
    /\ Len(players) <= MAX_PLAYERS
    /\ Len(players) = MAX_PLAYERS =>
          \A s \in DOMAIN sockets, random \in FallbackColors :
              LET added == addPlayer(Room, s, now, random)
              IN /\ added.player = <<>>
                 /\ added.room.players = players
                 /\ added.room.usedColors = usedColors

\* the room filled up again after a departure, and the next joinRoom was
\* refused
FullRoomRefusedJoin ==
    /\ Len(players) = MAX_PLAYERS
    /\ notices # <<>>
    /\ lastJoin # <<>>
    /\ ~lastJoin.success
    /\ Cardinality(usedColors) = MAX_PLAYERS

\* C35  Single departure notice: the server emits playerLeft for the id of a
\* player once at most, in every order of leaveRoom, disconnect and the
\* cleanup.
SingleDepartureNotice ==
    \A i, j \in 1..Len(notices) : notices[i] = notices[j] => i = j

\* C37  No orphan players: once a socket has left or disconnected, no player
\* created by a joinRoom of that socket remains in the room, even when the
\* socket sent joinRoom more than once.
NoOrphanPlayers ==
    \A s \in departed : \A i \in 1..Len(players) : players[i].socketId # s

\* C36  No self ghost: with the packets of the server delivered in the order
\* sent, a client never holds a RemoteVehicle whose id is its own player id.
NoSelfGhost ==
    \A s \in DOMAIN managers :
        managers[s].playerId # 0 => managers[s].playerId \notin managers[s].remoteVehicles

(***************************************************************************)
(* Properties of the noise constructor                                     *)
(***************************************************************************)
\* C38  Permutation table: for every integer seed, after construction
\* perm[0..255] holds each value 0..255 exactly once, perm[i + 256] = perm[i]
\* for i in 0..255, permMod12[i] = perm[i] mod 12 for i in 0..511, every
\* index the shuffle swaps position i with lies in 0..i, and every gradient
\* index lies in 0..11.
PermutationTable ==
    (call # <<>> /\ call.op = "new SimplexNoise") =>
        LET perm == call.noise.perm
            permMod12 == call.noise.permMod12
        IN /\ Len(perm) = 2 * PermSize
           /\ Len(permMod12) = 2 * PermSize
           /\ \A v \in 0..(PermSize - 1) :
                 Cardinality({n \in 1..PermSize : perm[n] = v}) = 1
           /\ \A n \in 1..PermSize : perm[n + PermSize] = perm[n]
           /\ \A n \in 1..(2 * PermSize) :
                 /\ permMod12[n] = JsRem(perm[n], 12)
                 /\ permMod12[n] \in 0..(Len(grad3) - 1)
           /\ Len(call.js) = PermSize - 1
           /\ \A k \in 1..(PermSize - 1) :
                 /\ 0 <= call.js[k]
                 /\ call.js[k] <= PermSize - k

\* a table constructed with a negative seed whose shuffle moved the last
\* position and differs from the table of the opposite seed
NegativeSeedShuffled ==
    /\ call # <<>>
    /\ call.op = "new SimplexNoise"
    /\ call.seed < 0
    /\ call.js[1] # PermSize - 1
    /\ call.noise.perm # SimplexNoise(-call.seed).perm

====
